---- MODULE Spec2Model ----
(***************************************************************************)
(* A model of minis3's multipart-upload requests and paginated listings.   *)
(*                                                                         *)
(*   Spec      the multipart-upload requests (initiate, upload part,       *)
(*             complete, cancel) run against a pool of MultipartUpload     *)
(*             session objects, and the creation of session objects by the *)
(*             upload listing.                                             *)
(*   SpecList  one listing request (objects, uploads or parts) iterated by *)
(*             a consumer against a server that answers each page request  *)
(*             with any page or with a failure.                            *)
(***************************************************************************)
EXTENDS Integers, Sequences, FiniteSets, TLC

VARIABLES
    sessions,   \* Spec: the MultipartUpload objects, by identity
    lastOp,     \* Spec: the operation that ran last: input, outcome, calls
    lister,     \* SpecList: the listing request object (self.* fields)
    gen,        \* SpecList: the generator returned by run(): position, locals
    inflight,   \* SpecList: page requests sent and not yet answered
    requests,   \* SpecList: cursors of the page requests of this iteration
    pages,      \* SpecList: the pages received in this iteration
    yielded,    \* SpecList: the records handed to the consumer
    earlier,    \* SpecList: cursor of the last page an earlier generator went past
    consumer,   \* SpecList: what the consumer's last next() call produced
    server,     \* SpecList: the malformed record the server's pages hold
    signer,     \* SpecSign, SpecRegion: the signature object (self.* fields)
    original,   \* SpecSign: the request as the caller made it
    copies,     \* SpecSign: the request objects handed to sign_request
    signing,    \* SpecSign, SpecRegion: locals of the signature call run last
    clock,      \* SpecSign: the wall clock, get_utc_datetime()
    workers,    \* SpecParts: the UploadPartRequest of each thread, and how far
                \* its run() has got
    files       \* SpecParts: the source of each thread: position, closed or not

vars == <<sessions, lastOp, lister, gen, inflight, requests, pages, yielded,
          earlier, consumer, server, signer, original, copies, signing, clock, workers,
          files>>

mpVars == <<sessions, lastOp>>
listVars == <<lister, gen, inflight, requests, pages, yielded, earlier, consumer,
              server>>
signVars == <<signer, original, copies, signing, clock>>
partVars == <<workers, files>>

(***************************************************************************)
(* Bounds of the model.                                                    *)
(***************************************************************************)
MaxParts == 2
MaxRequests == 3
MaxBucketLen == 3
MaxClock == 2
MaxWorkers == 2

(***************************************************************************)
(* Python values.                                                          *)
(***************************************************************************)
None == "<None>"

Keys == {"k1"}
Bucket == "bucket"
UploadIds == {"u1", "u2"}
PartNumbers == {1, 2}
ETags == {"\"a\"", "\"b\""}

RECURSIVE Flatten(_)
Flatten(ss) == IF ss = <<>> THEN <<>> ELSE Head(ss) \o Flatten(Tail(ss))

SeqsUpTo(S, n) == UNION {[1..m -> S] : m \in 0..n}

(***************************************************************************)
(* S3Request: query string, URL, transport call.                           *)
(***************************************************************************)

\* sorted(self.params.items()): the parameter names in ascending string order.
ParamOrder == <<"partNumber", "uploadId", "uploads">>

\* params: a function from parameter names to values as "{0}".format renders
\* them (None: a bare marker).
\* The result is the sequence of query parts, "name=value" as <<name, value>>
\* and a bare "name" as <<name>>.
_build_query_string(params) ==
    LET present == SelectSeq(ParamOrder, LAMBDA p : p \in DOMAIN params)
    IN  [i \in 1..Len(present) |->
            IF params[present[i]] # None
            THEN <<present[i], params[present[i]]>>
            ELSE <<present[i]>>]

bucket_url(key, bucket, params) ==
    [bucket |-> bucket, key |-> key, query |-> _build_query_string(params)]

\* The data of a call: none, the part's source, or an XML body.
NoData == [kind |-> "none", xml |-> <<>>]
FpData == [kind |-> "fp", xml |-> <<>>]
XmlData(xml) == [kind |-> "xml", xml |-> xml]

\* One call of the adapter: what was sent.
Call(method, url, data) == [method |-> method, url |-> url, data |-> data]

\* What the transport can answer: a status and a body.
StatusOK == "2xx"
StatusError == "4xx/5xx"

(***************************************************************************)
(* XML elements are given by their text: Absent when the element is not    *)
(* there, None when it is there with no text.                              *)
(***************************************************************************)
Absent == "<absent>"

Falsy(text) == text = None \/ text = ""

\* An answer of the transport: status, and for a 2xx the body.
InitiateBodies ==
    {[wellformed |-> FALSE, UploadId |-> Absent]}
    \cup {[wellformed |-> TRUE, UploadId |-> t] : t \in {Absent, None, ""} \cup UploadIds}

Answers(bodies) ==
    {[status |-> StatusError, body |-> [wellformed |-> FALSE, UploadId |-> Absent]]}
    \cup {[status |-> StatusOK, body |-> b] : b \in bodies}

NoBody == [wellformed |-> TRUE, UploadId |-> Absent]

\* The result of running a request: how it ended, what it returned, the
\* transport calls it made, and what it did to its source, in order.
Result(outcome, ret, sent, events) ==
    [outcome |-> outcome, ret |-> ret, sent |-> sent, events |-> events]

\* _make_request: one adapter call, then raise_for_status.
_make_request(method, url, data, answer) ==
    IF answer.status = StatusOK
    THEN Result("return", "response", <<Call(method, url, data)>>, <<"send">>)
    ELSE Result("HTTPError", None, <<Call(method, url, data)>>, <<"send">>)

(***************************************************************************)
(* InitiateMultipartUploadRequest                                          *)
(***************************************************************************)
InitiateMultipartUploadRequest(key, bucket) ==
    [key |-> key, bucket |-> bucket, params |-> [p \in {"uploads"} |-> None]]

\* As _extract_upload_id, testing the element only for None.
_extract_upload_id_NoneOnly(xml_content) ==
    IF ~xml_content.wellformed
    THEN [raised |-> TRUE, value |-> None]
    ELSE IF xml_content.UploadId = Absent
         THEN [raised |-> TRUE, value |-> None]
         ELSE [raised |-> FALSE, value |-> xml_content.UploadId]

_extract_upload_id(xml_content) ==
    IF ~xml_content.wellformed
    THEN [raised |-> TRUE, value |-> None]          \* ET.ParseError -> ValueError
    ELSE IF xml_content.UploadId = Absent \/ Falsy(xml_content.UploadId)
         THEN [raised |-> TRUE, value |-> None]     \* ValueError
         ELSE [raised |-> FALSE, value |-> xml_content.UploadId]

InitiateMultipartUploadRequest_run(req, answer) ==
    LET url == bucket_url(req.key, req.bucket, req.params)
        r == _make_request("POST", url, NoData, answer)
        x == _extract_upload_id(answer.body)
    IN  IF r.outcome # "return" THEN r
        ELSE IF x.raised THEN Result("ValueError", None, r.sent, r.events)
        ELSE Result("return", x.value, r.sent, r.events)

(***************************************************************************)
(* UploadPartRequest                                                       *)
(***************************************************************************)
\* As UploadPartRequest, with the values of the two parameters exchanged.
UploadPartRequest_Swapped(key, bucket, fp, part_num, upload_id, close, rewind) ==
    [key |-> key, bucket |-> bucket, fp |-> fp, part_num |-> part_num,
     upload_id |-> upload_id, close |-> close, rewind |-> rewind,
     params |-> [p \in {"partNumber", "uploadId"} |->
                    IF p = "uploadId" THEN ToString(part_num) ELSE upload_id]]

UploadPartRequest(key, bucket, fp, part_num, upload_id, close, rewind) ==
    [key |-> key, bucket |-> bucket, fp |-> fp, part_num |-> part_num,
     upload_id |-> upload_id, close |-> close, rewind |-> rewind,
     params |-> [p \in {"partNumber", "uploadId"} |->
                    IF p = "partNumber" THEN ToString(part_num) ELSE upload_id]]

\* A source: whether it has seek and close (hasattr), its position, and
\* whether it is closed.
Sources ==
    [hasSeek : BOOLEAN, hasClose : BOOLEAN, pos : {"start", "mid"}, closed : {FALSE}]

\* As UploadPartRequest_run, closing the source after the return only, not
\* in a finally clause.
UploadPartRequest_run_CloseOnReturn(req, answer) ==
    LET url == bucket_url(req.key, req.bucket, req.params)
        seeks == req.rewind /\ req.fp.hasSeek
        closes == req.close /\ req.fp.hasClose /\ answer.status = StatusOK
        r == _make_request("PUT", url, FpData, answer)
    IN  Result(r.outcome, r.ret, r.sent,
               (IF seeks THEN <<"seek">> ELSE <<>>) \o r.events
               \o (IF closes THEN <<"close">> ELSE <<>>))

UploadPartRequest_run(req, answer) ==
    LET url == bucket_url(req.key, req.bucket, req.params)
        seeks == req.rewind /\ req.fp.hasSeek
        closes == req.close /\ req.fp.hasClose
        r == _make_request("PUT", url, FpData, answer)
    IN  Result(r.outcome, r.ret, r.sent,
               (IF seeks THEN <<"seek">> ELSE <<>>) \o r.events
               \o (IF closes THEN <<"close">> ELSE <<>>))

(***************************************************************************)
(* CompleteUploadRequest                                                   *)
(***************************************************************************)
\* A caller's part dictionary: which of the two keys it has, and their values.
PartEntries ==
    {[has_pn |-> hp, part_number |-> IF hp THEN n ELSE 0,
      has_etag |-> he, etag |-> IF he THEN e ELSE ""] :
        hp \in BOOLEAN, n \in PartNumbers, he \in BOOLEAN, e \in ETags}

\* parts_list: None, or a list of part dictionaries.
PartsLists ==
    {[isNone |-> TRUE, list |-> <<>>]}
    \cup {[isNone |-> FALSE, list |-> l] : l \in SeqsUpTo(PartEntries, MaxParts)}

CompleteUploadRequest(key, bucket, upload_id, parts_list) ==
    [key |-> key, bucket |-> bucket, upload_id |-> upload_id,
     parts_list |-> parts_list, params |-> [p \in {"uploadId"} |-> upload_id]]

PartXml(part) ==
    <<"<Part>",
      "<PartNumber>", ToString(part.part_number), "</PartNumber>",
      "<ETag>", part.etag, "</ETag>",
      "</Part>">>

HasBothKeys(part) == part.has_pn /\ part.has_etag

\* sorted(parts, key=part_number), by insertion.
RECURSIVE InsertByNumber(_, _)
InsertByNumber(part, sorted) ==
    IF sorted = <<>> THEN <<part>>
    ELSE IF part.part_number < Head(sorted).part_number THEN <<part>> \o sorted
    ELSE <<Head(sorted)>> \o InsertByNumber(part, Tail(sorted))

RECURSIVE SortByNumber(_)
SortByNumber(parts) ==
    IF parts = <<>> THEN <<>>
    ELSE InsertByNumber(Head(parts), SortByNumber(Tail(parts)))

\* As _build_completion_xml, leaving out the entries that lack a key.
_build_completion_xml_SkipBad(parts) ==
    LET good == SelectSeq(parts, HasBothKeys)
    IN  [raised |-> FALSE,
         xml |-> <<"<CompleteMultipartUpload>">>
                 \o Flatten([i \in 1..Len(good) |-> PartXml(good[i])])
                 \o <<"</CompleteMultipartUpload>">>]

\* As _build_completion_xml, with the parts sorted by part number.
_build_completion_xml_Sorted(parts) ==
    IF \E i \in 1..Len(parts) : ~HasBothKeys(parts[i])
    THEN [raised |-> TRUE, xml |-> <<>>]
    ELSE LET sorted == SortByNumber(parts)
         IN  [raised |-> FALSE,
              xml |-> <<"<CompleteMultipartUpload>">>
                      \o Flatten([i \in 1..Len(sorted) |-> PartXml(sorted[i])])
                      \o <<"</CompleteMultipartUpload>">>]

\* The body is the concatenation of these strings, kept as a sequence.
_build_completion_xml(parts) ==
    IF \E i \in 1..Len(parts) : ~parts[i].has_pn \/ ~parts[i].has_etag
    THEN [raised |-> TRUE, xml |-> <<>>]
    ELSE [raised |-> FALSE,
          xml |-> <<"<CompleteMultipartUpload>">>
                  \o Flatten([i \in 1..Len(parts) |-> PartXml(parts[i])])
                  \o <<"</CompleteMultipartUpload>">>]

\* As CompleteUploadRequest_run, without the test of the parts list.
CompleteUploadRequest_run_NoEmptyTest(req, answer) ==
    LET x == _build_completion_xml(req.parts_list.list)
        url == bucket_url(req.key, req.bucket, req.params)
    IN  IF x.raised THEN Result("ValueError", None, <<>>, <<>>)
        ELSE _make_request("POST", url, XmlData(x.xml), answer)

CompleteUploadRequest_run(req, answer) ==
    IF req.parts_list.isNone \/ req.parts_list.list = <<>>
    THEN Result("ValueError", None, <<>>, <<>>)
    ELSE LET x == _build_completion_xml(req.parts_list.list)
             url == bucket_url(req.key, req.bucket, req.params)
         IN  IF x.raised THEN Result("ValueError", None, <<>>, <<>>)
             ELSE _make_request("POST", url, XmlData(x.xml), answer)

(***************************************************************************)
(* CancelUploadRequest                                                     *)
(***************************************************************************)
CancelUploadRequest(key, bucket, upload_id) ==
    [key |-> key, bucket |-> bucket, upload_id |-> upload_id,
     params |-> [p \in {"uploadId"} |-> upload_id]]

\* As CancelUploadRequest_run, taking an error status for an upload that is
\* already gone and returning instead of raising.
CancelUploadRequest_run_Lenient(req, answer) ==
    LET r == _make_request("DELETE", bucket_url(req.key, req.bucket, req.params),
                           NoData, answer)
    IN  IF r.outcome = "HTTPError" THEN Result("return", None, r.sent, r.events)
        ELSE r

CancelUploadRequest_run(req, answer) ==
    _make_request("DELETE", bucket_url(req.key, req.bucket, req.params), NoData, answer)

(***************************************************************************)
(* Listing responses.  An element of a record is absent, present with no   *)
(* text (its .text is then Python's None), or present with text.  ETag     *)
(* texts are sequences of characters, every other text is a string.        *)
(***************************************************************************)
Txt(t) == [st |-> "text", text |-> t]
NoElem == [st |-> "absent", text |-> ""]
EmptyElem == [st |-> "empty", text |-> ""]
NoElemQ == [st |-> "absent", text |-> <<>>]

Missing(e) == e.st = "absent"

\* elem.text
TextOf(e) == IF e.st = "empty" THEN None ELSE e.text

\* int(text): the number whose decimal rendering the text is.
IntRange == 0..20

IsInt(t) == \E n \in IntRange : ToString(n) = t

int(t) == CHOOSE n \in IntRange : ToString(n) = t

\* datetime.strptime(text, "%Y-%m-%dT%H:%M:%S.%fZ"): the texts of the model
\* that match the format, with the datetime each gives.
Conforming == "2024-01-02T03:04:05.000Z"
NoFraction == "2024-01-02T03:04:05Z"
Rfc1123 == "Tue, 02 Jan 2024 03:04:05 GMT"

MatchesFormat(t) == t = Conforming

strptime(t) == <<2024, 1, 2, 3, 4, 5, 0>>

\* text[1:-1]
Slice1m1(cs) == IF Len(cs) <= 2 THEN <<>> ELSE SubSeq(cs, 2, Len(cs) - 1)

Quoted(c) == <<"\"", c, "\"">>

NoInfo == [some |-> FALSE]

(***************************************************************************)
(* ListRequest._extract_object_info                                        *)
(***************************************************************************)
\* As _extract_object_info, with a size that is no number taken as 0.
_extract_object_info_AnySize(tag) ==
    IF Missing(tag.Key) \/ Missing(tag.Size) \/ Missing(tag.LastModified)
       \/ Missing(tag.ETag)
    THEN NoInfo
    ELSE IF tag.LastModified.st = "empty" \/ ~MatchesFormat(tag.LastModified.text)
    THEN NoInfo
    ELSE IF tag.ETag.st = "empty"
    THEN NoInfo
    ELSE [some |-> TRUE,
          key |-> TextOf(tag.Key),
          size |-> IF tag.Size.st = "text" /\ IsInt(tag.Size.text)
                   THEN int(tag.Size.text) ELSE 0,
          last_modified |-> strptime(tag.LastModified.text),
          etag |-> Slice1m1(tag.ETag.text),
          storage_class |-> IF Missing(tag.StorageClass) THEN "STANDARD"
                            ELSE TextOf(tag.StorageClass)]

_extract_object_info(tag) ==
    IF Missing(tag.Key) \/ Missing(tag.Size) \/ Missing(tag.LastModified)
       \/ Missing(tag.ETag)
    THEN NoInfo
    ELSE IF tag.Size.st = "empty" \/ ~IsInt(tag.Size.text)
    THEN NoInfo                                  \* TypeError, ValueError
    ELSE IF tag.LastModified.st = "empty" \/ ~MatchesFormat(tag.LastModified.text)
    THEN NoInfo                                  \* TypeError, ValueError
    ELSE IF tag.ETag.st = "empty"
    THEN NoInfo                                  \* TypeError
    ELSE [some |-> TRUE,
          key |-> TextOf(tag.Key),
          size |-> int(tag.Size.text),
          last_modified |-> strptime(tag.LastModified.text),
          etag |-> Slice1m1(tag.ETag.text),
          storage_class |-> IF Missing(tag.StorageClass) THEN "STANDARD"
                            ELSE TextOf(tag.StorageClass)]

(***************************************************************************)
(* ListMultipartUploadRequest._extract_upload_info: a MultipartUpload      *)
(* object is made for the key and its uploadId is set from the record.     *)
(***************************************************************************)
_extract_upload_info(tag, bucket) ==
    IF Missing(tag.Key) \/ Missing(tag.UploadId)
    THEN NoInfo
    ELSE [some |-> TRUE, bucket |-> bucket, key |-> TextOf(tag.Key),
          uploadId |-> TextOf(tag.UploadId)]

(***************************************************************************)
(* ListPartsRequest._extract_part_info                                     *)
(***************************************************************************)
_extract_part_info(tag) ==
    IF Missing(tag.PartNumber) \/ Missing(tag.LastModified) \/ Missing(tag.ETag)
       \/ Missing(tag.Size)
    THEN NoInfo
    ELSE IF tag.PartNumber.st = "empty" \/ ~IsInt(tag.PartNumber.text)
    THEN NoInfo                                  \* TypeError, ValueError
    ELSE IF tag.Size.st = "empty" \/ ~IsInt(tag.Size.text)
    THEN NoInfo                                  \* TypeError, ValueError
    ELSE [some |-> TRUE,
          part_number |-> int(tag.PartNumber.text),
          last_modified |-> TextOf(tag.LastModified),
          etag |-> IF tag.ETag.st = "empty" THEN <<None>> ELSE tag.ETag.text,
          size |-> int(tag.Size.text)]

(***************************************************************************)
(* The records and pages a server can answer with.                         *)
(***************************************************************************)
ObjectTag(key, size, modified, etag, storage) ==
    [Key |-> key, Size |-> size, LastModified |-> modified, ETag |-> etag,
     StorageClass |-> storage]

UploadTag(key, uploadId) == [Key |-> key, UploadId |-> uploadId]

PartTag(num, modified, etag, size) ==
    [PartNumber |-> num, LastModified |-> modified, ETag |-> etag, Size |-> size]

\* Two well-formed records of each kind.
GoodA(kind) ==
    CASE kind = "objects" ->
            ObjectTag(Txt("a"), Txt("12"), Txt(Conforming), Txt(Quoted("x")), NoElem)
      [] kind = "uploads" -> UploadTag(Txt("a"), Txt("u1"))
      [] kind = "parts" -> PartTag(Txt("1"), Txt(Conforming), Txt(Quoted("x")), Txt("12"))

GoodB(kind) ==
    CASE kind = "objects" ->
            ObjectTag(Txt("b"), Txt("7"), Txt(Conforming), Txt(<<"y">>), Txt("GLACIER"))
      [] kind = "uploads" -> UploadTag(Txt("b"), Txt("u2"))
      [] kind = "parts" -> PartTag(Txt("2"), Txt(NoFraction), Txt(<<"y">>), Txt("7"))

\* The records the listing is to drop: a required element missing, a size or
\* part number that is no number, an object timestamp not in the format.
BadTags(kind) ==
    CASE kind = "objects" ->
            {ObjectTag(NoElem, Txt("12"), Txt(Conforming), Txt(Quoted("x")), NoElem),
             ObjectTag(Txt("c"), NoElem, Txt(Conforming), Txt(Quoted("x")), NoElem),
             ObjectTag(Txt("c"), Txt("12"), NoElem, Txt(Quoted("x")), NoElem),
             ObjectTag(Txt("c"), Txt("12"), Txt(Conforming), NoElemQ, NoElem),
             ObjectTag(Txt("c"), Txt("abc"), Txt(Conforming), Txt(Quoted("x")), NoElem),
             ObjectTag(Txt("c"), EmptyElem, Txt(Conforming), Txt(Quoted("x")), NoElem),
             ObjectTag(Txt("c"), Txt("12"), Txt(NoFraction), Txt(Quoted("x")), NoElem),
             ObjectTag(Txt("c"), Txt("12"), Txt(Rfc1123), Txt(Quoted("x")), NoElem),
             ObjectTag(Txt("c"), Txt("12"), EmptyElem, Txt(Quoted("x")), NoElem)}
      [] kind = "uploads" ->
            {UploadTag(NoElem, Txt("u1")), UploadTag(Txt("c"), NoElem)}
      [] kind = "parts" ->
            {PartTag(NoElem, Txt(Conforming), Txt(Quoted("x")), Txt("12")),
             PartTag(Txt("3"), NoElem, Txt(Quoted("x")), Txt("12")),
             PartTag(Txt("3"), Txt(Conforming), NoElemQ, Txt("12")),
             PartTag(Txt("3"), Txt(Conforming), Txt(Quoted("x")), NoElem),
             PartTag(Txt("abc"), Txt(Conforming), Txt(Quoted("x")), Txt("12")),
             PartTag(Txt("3"), Txt(Conforming), Txt(Quoted("x")), Txt("abc")),
             PartTag(EmptyElem, Txt(Conforming), Txt(Quoted("x")), Txt("12")),
             PartTag(Txt("3"), Txt(Conforming), Txt(Quoted("x")), EmptyElem)}

\* The record lists of a page: records around a malformed one, and a page
\* with no parseable record.
TagLists(kind, bad) == {<<GoodA(kind), bad, GoodB(kind)>>, <<bad>>}

Page(tags, truncated, nextKey, nextUploadId, nextPart) ==
    [tags |-> tags, IsTruncated |-> truncated, NextKeyMarker |-> nextKey,
     NextUploadIdMarker |-> nextUploadId, NextPartNumberMarker |-> nextPart]

NoPage == Page(<<>>, Absent, Absent, Absent, Absent)

\* IsTruncated and the Next*Marker elements a page of each kind can carry.
PageEnds(kind) ==
    CASE kind = "objects" ->
            {<<t, Absent, Absent, Absent>> : t \in {"true", "false", Absent}}
      [] kind = "uploads" ->
            {<<"true", "m1", "i1", Absent>>, <<"true", "m2", Absent, Absent>>,
             <<"true", Absent, Absent, Absent>>, <<"false", "m1", "i1", Absent>>,
             <<"false", Absent, Absent, Absent>>, <<Absent, Absent, Absent, Absent>>}
      [] kind = "parts" ->
            {<<"true", Absent, Absent, "1">>, <<"true", Absent, Absent, "2">>,
             <<"true", Absent, Absent, Absent>>, <<"false", Absent, Absent, "1">>,
             <<Absent, Absent, Absent, Absent>>}

Pages(kind, bad) ==
    {Page(tags, e[1], e[2], e[3], e[4]) : tags \in TagLists(kind, bad), e \in PageEnds(kind)}

(***************************************************************************)
(* The listing requests: ListRequest, ListMultipartUploadRequest,          *)
(* ListPartsRequest.                                                       *)
(***************************************************************************)
\* The request object: the markers ListMultipartUploadRequest and
\* ListPartsRequest keep on self (ListRequest keeps none).
Lister(kind, keyMarker, uploadIdMarker, partMarker) ==
    [kind |-> kind, key_marker |-> keyMarker, upload_id_marker |-> uploadIdMarker,
     part_number_marker |-> partMarker]

InitialMarkers == {"", "m0"}

Listers ==
    {Lister("objects", "", "", "")}
    \cup {Lister("uploads", m, "", "") : m \in InitialMarkers}
    \cup {Lister("parts", "", "", m) : m \in InitialMarkers}

\* run(): iter(self) makes the generator; none of its body has run.  marker
\* is the local of ListRequest.__iter__.
NewGenerator ==
    [pc |-> "created", marker |-> "", page |-> NoPage, idx |-> 0]

\* The cursor a page request carries.
Cursor(l, g) ==
    CASE l.kind = "objects" -> <<g.marker>>
      [] l.kind = "uploads" -> <<l.key_marker, l.upload_id_marker>>
      [] l.kind = "parts" -> <<l.part_number_marker>>

\* The record extraction of each kind.
Extract(kind, tag) ==
    CASE kind = "objects" -> _extract_object_info(tag)
      [] kind = "uploads" -> _extract_upload_info(tag, Bucket)
      [] kind = "parts" -> _extract_part_info(tag)

\* As More, taking a page with no IsTruncated element as truncated.
More_UnlessFalse(page) == page.IsTruncated # "false"

\* more = truncated_element is not None and truncated_element.text == "true"
More(page) == page.IsTruncated # Absent /\ page.IsTruncated = "true"

\* As NextMarkers, the upload listing taking the key marker only.
NextMarkers_KeyOnly(l, page) ==
    CASE l.kind = "objects" -> l
      [] l.kind = "uploads" ->
            [l EXCEPT !.key_marker =
                        IF page.NextKeyMarker # Absent THEN page.NextKeyMarker ELSE @]
      [] l.kind = "parts" ->
            [l EXCEPT !.part_number_marker =
                        IF page.NextPartNumberMarker # Absent
                        THEN page.NextPartNumberMarker ELSE @]

\* The markers on self after a page with more = True.
NextMarkers(l, page) ==
    CASE l.kind = "objects" -> l
      [] l.kind = "uploads" ->
            [l EXCEPT !.key_marker =
                        IF page.NextKeyMarker # Absent THEN page.NextKeyMarker ELSE @,
                      !.upload_id_marker =
                        IF page.NextUploadIdMarker # Absent
                        THEN page.NextUploadIdMarker ELSE @]
      [] l.kind = "parts" ->
            [l EXCEPT !.part_number_marker =
                        IF page.NextPartNumberMarker # Absent
                        THEN page.NextPartNumberMarker ELSE @]

\* As AfterYield, the generator running on past the yield.
AfterYield_RunsOn(g) == [g EXCEPT !.idx = @ + 1]

\* The generator after a yield: suspended until the next next().
AfterYield(g) == [g EXCEPT !.pc = "suspended", !.idx = @ + 1]

\* The generator after a record that gave no info: on to the next record.
AfterSkip(g) == [g EXCEPT !.idx = @ + 1]

\* As AfterFailure, the loop asking for the page again.
AfterFailure_Retry(g) == [g EXCEPT !.pc = "fetch"]

\* The generator after _make_request or ET.fromstring raised: the exception
\* leaves the generator, which is then finished.
AfterFailure(g) == [g EXCEPT !.pc = "failed"]

\* The generator at the end of a page.
AfterPage(g) == [g EXCEPT !.pc = IF More(g.page) THEN "fetch" ELSE "finished"]

Idle(g) == g.pc \in {"none", "created", "suspended", "finished", "failed"}

\* The pages a generator has gone past: all it received once it has returned
\* or raised, all but the one it is suspended in while it is suspended.
PagesPassed(g, pgs) ==
    CASE g.pc \in {"finished", "failed"} -> Len(pgs)
      [] g.pc = "suspended" -> Len(pgs) - 1
      [] OTHER -> 0

\* The cursor of the request that fetched the last of those pages.
PassedCursors(g, reqs, pgs) ==
    IF PagesPassed(g, pgs) > 0 THEN {reqs[PagesPassed(g, pgs)]} ELSE {}

(***************************************************************************)
(* Strings of the signature code.  A host name, a region, a path and a     *)
(* canonicalized resource are sequences of tokens: the separators ".",     *)
(* "-", ":", "/", "?", "=", "&", and words that hold none of them; "s3",   *)
(* "amazonaws" and "com" are words of their own, so that a test for a      *)
(* substring is a test for a run of tokens.                                *)
(***************************************************************************)
\* pat in s
Contains(s, pat) ==
    \E i \in 1..(Len(s) - Len(pat) + 1) : SubSeq(s, i, i + Len(pat) - 1) = pat

\* s.find(pat) + 1: the first place pat is at, 0 when it is nowhere.
Find(s, pat) ==
    IF Contains(s, pat)
    THEN CHOOSE i \in 1..(Len(s) - Len(pat) + 1) :
            /\ SubSeq(s, i, i + Len(pat) - 1) = pat
            /\ \A j \in 1..(i - 1) : SubSeq(s, j, j + Len(pat) - 1) # pat
    ELSE 0

\* s.split(sep)[0]
Split0(s, sep) == IF Find(s, sep) = 0 THEN s ELSE SubSeq(s, 1, Find(s, sep) - 1)

\* s.split(sep)[1], for a string that holds sep.
Split1(s, sep) == Split0(SubSeq(s, Find(s, sep) + Len(sep), Len(s)), sep)

S3AmazonawsCom == <<"s3", ".", "amazonaws", ".", "com">>
DotAmazonawsCom == <<".", "amazonaws", ".", "com">>
UsEast1 == <<"us", "-", "east", "-", "1">>

(***************************************************************************)
(* SignatureV4.__init__ and _extract_region_from_endpoint                  *)
(***************************************************************************)
_extract_region_from_endpoint(endpoint) ==
    IF Contains(endpoint, S3AmazonawsCom)
    THEN UsEast1
    ELSE IF Contains(endpoint, <<"s3", "-">>) /\ Contains(endpoint, DotAmazonawsCom)
    THEN Split0(Split1(endpoint, <<"s3", "-">>), DotAmazonawsCom)
    ELSE IF Contains(endpoint, <<".", "s3", ".">>) /\ Contains(endpoint, DotAmazonawsCom)
    THEN Split0(Split1(endpoint, <<".", "s3", ".">>), DotAmazonawsCom)
    ELSE UsEast1

\* region=None, and the empty string, which `region or ...` takes alike.
NoRegion == <<>>

SignatureV4(access_key, secret_key, endpoint, region) ==
    [version |-> 4, access_key |-> access_key, secret_key |-> secret_key,
     endpoint |-> endpoint,
     region |-> IF region # NoRegion THEN region
                ELSE _extract_region_from_endpoint(endpoint),
     service |-> "s3"]

SignatureV2(access_key, secret_key, endpoint) ==
    [version |-> 2, access_key |-> access_key, secret_key |-> secret_key,
     endpoint |-> endpoint, region |-> NoRegion, service |-> ""]

NoSigner ==
    [version |-> 0, access_key |-> "", secret_key |-> "", endpoint |-> <<>>,
     region |-> NoRegion, service |-> ""]

(***************************************************************************)
(* Endpoints and hosts.                                                    *)
(***************************************************************************)
Regions ==
    {<<"eu", "-", "west", "-", "1">>, <<"us", "-", "west", "-", "2">>,
     <<"ap", "-", "south", "-", "1">>}

\* Bucket names: words joined by "-" or ".", up to MaxBucketLen tokens.
BucketWords == {"my", "s3"}
BucketSeparators == {"-", "."}

BucketNames ==
    {b \in SeqsUpTo(BucketWords \cup BucketSeparators, MaxBucketLen) :
        /\ Len(b) % 2 = 1
        /\ \A i \in 1..Len(b) :
            IF i % 2 = 1 THEN b[i] \in BucketWords ELSE b[i] \in BucketSeparators}

\* s3-{region}.amazonaws.com
RegionalHost(region) == <<"s3", "-">> \o region \o DotAmazonawsCom

\* {bucket}.s3.{region}.amazonaws.com
VHostRegional(bucket, region) ==
    bucket \o <<".", "s3", ".">> \o region \o DotAmazonawsCom

\* {bucket}.s3.amazonaws.com
VHostGlobal(bucket) == bucket \o <<".">> \o S3AmazonawsCom

\* {bucket}.s3-{region}.amazonaws.com
VHostDash(bucket, region) == bucket \o <<".", "s3", "-">> \o region \o DotAmazonawsCom

\* Custom and local endpoints, with and without a port.
OtherHosts ==
    {<<"localhost", ":", "9000">>, <<"custom", ".", "endpoint", ":", "9000">>,
     <<"custom", ".", "endpoint">>, <<"minio", ".", "example", ".", "org">>,
     <<"127", ".", "0", ".", "0", ".", "1", ":", "9000">>}

Endpoints ==
    {S3AmazonawsCom}
    \cup {RegionalHost(r) : r \in Regions}
    \cup {VHostRegional(b, r) : b \in BucketNames, r \in Regions}
    \cup {VHostGlobal(b) : b \in BucketNames}
    \cup {VHostDash(b, r) : b \in BucketNames, r \in Regions}
    \cup OtherHosts

\* The region argument of the constructor: none, or a configured region.
RegionArgs == {NoRegion, <<"sa", "-", "east", "-", "1">>}

\* The locals of the call of the signature code that ran last.
NoSigning == [call |-> "none"]

\* Request bodies: none, bytes, text, or an object with a read method.
BodyOf(kind, data) == [kind |-> kind, data |-> data]
NoneBody == BodyOf("none", "")

\* `request.body` as a condition: bytes and text are true when not empty,
\* None is false, any other object is true.
Truthy(body) ==
    CASE body.kind = "none" -> FALSE
      [] body.kind \in {"bytes", "str"} -> body.data # ""
      [] OTHER -> TRUE

\* text.encode("utf-8"): the bytes of the text.
encode(text) == IF text = "caf\\u00e9" THEN "caf\\xc3\\xa9" ELSE text

NoSignRequest == [method |-> "", url |-> <<>>, headers |-> <<>>, body |-> NoneBody]

(***************************************************************************)
(* Requests to sign: method, parsed URL, headers, body.  The headers are a *)
(* function from the names that are there to their values; a value is a    *)
(* text of a known format (fmt) that, for a date, tells an instant (t).    *)
(***************************************************************************)
Put(headers, name, value) ==
    [h \in DOMAIN headers \cup {name} |-> IF h = name THEN value ELSE headers[h]]

Del(headers, name) == [h \in DOMAIN headers \ {name} |-> headers[h]]

Value(fmt, t) == [fmt |-> fmt, t |-> t]

\* headers.get(name, "")
EmptyValue == Value("", 0)
Get(headers, name) == IF name \in DOMAIN headers THEN headers[name] ELSE EmptyValue

\* get_utc_datetime().strftime("%Y%m%dT%H%M%SZ"), date_obj.strftime(...)
strftime(t) == Value("%Y%m%dT%H%M%SZ", t)

\* The formats of a Date header that strptime takes, in the order tried.
DateFormats ==
    {"%a, %d %b %Y %H:%M:%S GMT", "%a, %d %b %Y %H:%M:%S +0000",
     "%a, %d %b %Y %H:%M:%S"}

\* timestamp[:8]: the day of a YYYYMMDDTHHMMSSZ text; of any other text its
\* first eight characters, which tell no day.
DayOf(t) == (t + 1) \div 2

DateStamp(timestamp) ==
    IF timestamp.fmt = "%Y%m%dT%H%M%SZ"
    THEN Value("%Y%m%d", DayOf(timestamp.t))
    ELSE Value(timestamp.fmt, 0)

\* A query parameter as it stands in the URL: key, "=" or not, value.
Param(key, eq, value) == [key |-> key, eq |-> eq, value |-> value]

\* The keys and values of the model in ascending string order.
KeyOrder == <<"acl", "max", "max-keys", "partNumber", "prefix", "uploadId", "uploads">>
ValueOrder == <<"", "1", "foo", "u1">>

Rank(x, order) == CHOOSE i \in 1..Len(order) : order[i] = x

RankBase == 100

\* sorted(...), list.sort(): ascending by rank.
RECURSIVE SortByRank(_, _)
SortByRank(s, rank) ==
    IF s = <<>> THEN <<>>
    ELSE LET i == CHOOSE i \in 1..Len(s) :
                    /\ \A j \in 1..Len(s) : rank[s[i]] <= rank[s[j]]
                    /\ \A j \in 1..(i - 1) : rank[s[j]] > rank[s[i]]
             rest == SubSeq(s, 1, i - 1) \o SubSeq(s, i + 1, Len(s))
         IN  <<s[i]>> \o SortByRank(rest, rank)

\* sep.join(parts), the parts being token sequences.
RECURSIVE Join(_, _)
Join(parts, sep) ==
    IF parts = <<>> THEN <<>>
    ELSE IF Len(parts) = 1 THEN parts[1]
    ELSE parts[1] \o <<sep>> \o Join(Tail(parts), sep)

Range(s) == {s[i] : i \in 1..Len(s)}

\* method.upper()
Upper(method) == IF method = "put" THEN "PUT" ELSE method

\* key.lower()
Lower(name) ==
    CASE name = "Date" -> "date"
      [] name = "Content-Type" -> "content-type"
      [] name = "Authorization" -> "authorization"
      [] name = "X-Amz-Acl" -> "x-amz-acl"
      [] name = "X-Amz-Date" -> "x-amz-date"
      [] name = "X-Amzn-Id" -> "x-amzn-id"
      [] OTHER -> name

\* The lower-case header names in ascending order.
HeaderOrder ==
    <<"authorization", "content-type", "date", "x-amz-acl", "x-amz-date", "x-amzn-id">>

\* key_lower.startswith("x-amz-")
StartsWithXAmz(name) == name \in {"x-amz-acl", "x-amz-date"}

\* The order in which the caller put the names into the dict, which is the
\* order a dict iterates in; what sign_request inserts comes after them.
DictOrder ==
    <<"Content-Type", "content-type", "Date", "X-Amzn-Id", "X-Amz-Acl", "x-amz-acl",
      "X-Amz-Date", "x-amz-date", "Authorization">>

\* headers.keys(), headers.items(): the names in iteration order.
HeaderKeys(headers) == SelectSeq(DictOrder, LAMBDA n : n \in DOMAIN headers)

\* The names of keys whose lower-case form is n, in iteration order.
Spelled(keys, n) == SelectSeq(keys, LAMBDA k : Lower(k) = n)

\* hashlib and hmac: a digest tells what was hashed, and under which key.
sha256(msg) == [sha256 |-> msg]
hmac_sha256(key, msg) == [hmac_sha256 |-> msg, key |-> key]
hmac_sha1(key, msg) == [hmac_sha1 |-> msg, key |-> key]

(***************************************************************************)
(* SignatureV4                                                             *)
(***************************************************************************)
\* As _get_timestamp_from_request, reading the clock whatever the headers.
_get_timestamp_from_request_Clock(request, now) == strftime(now)

\* As _get_timestamp_from_request, the Date header looked at first.
_get_timestamp_from_request_DateFirst(request, now) ==
    IF "Date" \in DOMAIN request.headers /\ request.headers["Date"].fmt \in DateFormats
    THEN strftime(request.headers["Date"].t)
    ELSE IF "x-amz-date" \in DOMAIN request.headers
    THEN request.headers["x-amz-date"]
    ELSE strftime(now)

_get_timestamp_from_request(request, now) ==
    IF "x-amz-date" \in DOMAIN request.headers
    THEN request.headers["x-amz-date"]
    ELSE IF "Date" \in DOMAIN request.headers
    THEN IF request.headers["Date"].fmt \in DateFormats
         THEN strftime(request.headers["Date"].t)
         ELSE strftime(now)
    ELSE strftime(now)

\* As _get_canonical_query_string, the parameters left in the order of the
\* URL.
_get_canonical_query_string_Unsorted(query) ==
    LET params == [i \in 1..Len(query) |->
                        <<query[i].key, IF query[i].eq THEN query[i].value ELSE "">>]
    IN  Join([i \in 1..Len(params) |-> <<params[i][1], "=", params[i][2]>>], "&")

_get_canonical_query_string(query) ==
    LET params == [i \in 1..Len(query) |->
                        <<query[i].key, IF query[i].eq THEN query[i].value ELSE "">>]
        rank == [p \in Range(params) |->
                        RankBase * Rank(p[1], KeyOrder) + Rank(p[2], ValueOrder)]
        sorted == SortByRank(params, rank)
    IN  Join([i \in 1..Len(sorted) |-> <<sorted[i][1], "=", sorted[i][2]>>], "&")

\* The lower-case form of every key but Authorization, one entry for each
\* key, sorted; the ";" of the join stands between the entries.
_get_signed_headers(headers) ==
    LET keys == SelectSeq(HeaderKeys(headers), LAMBDA k : Lower(k) # "authorization")
        signed_headers == [i \in 1..Len(keys) |-> Lower(keys[i])]
    IN  SortByRank(signed_headers,
                   [n \in Range(signed_headers) |-> Rank(n, HeaderOrder)])

\* As _get_canonical_headers, Authorization not skipped.
_get_canonical_headers_All(headers) ==
    LET keys == HeaderKeys(headers)
        names == SelectSeq(HeaderOrder, LAMBDA n : Spelled(keys, n) # <<>>)
    IN  [i \in 1..Len(names) |->
            LET spelled == Spelled(keys, names[i])
            IN  <<names[i], headers[spelled[Len(spelled)]]>>]

\* A dict keyed by the lower-case name, a later key of the same lower-case
\* name overwriting the value of an earlier one; a line for each name of the
\* dict, sorted.
_get_canonical_headers(headers) ==
    LET keys == SelectSeq(HeaderKeys(headers), LAMBDA k : Lower(k) # "authorization")
        names == SelectSeq(HeaderOrder, LAMBDA n : Spelled(keys, n) # <<>>)
    IN  [i \in 1..Len(names) |->
            LET spelled == Spelled(keys, names[i])
            IN  <<names[i], headers[spelled[Len(spelled)]]>>]

_get_payload_hash(request) ==
    IF Truthy(request.body)
    THEN IF request.body.kind = "bytes" THEN sha256(request.body.data)
         ELSE IF request.body.kind = "str" THEN sha256(encode(request.body.data))
         ELSE sha256("")
    ELSE sha256("")

_create_canonical_request(request) ==
    [method |-> Upper(request.method),
     canonical_uri |-> IF request.url.path # <<>> THEN request.url.path ELSE <<"/">>,
     canonical_query_string |-> _get_canonical_query_string(request.url.query),
     canonical_headers |-> _get_canonical_headers(request.headers),
     signed_headers |-> _get_signed_headers(request.headers),
     payload_hash |-> _get_payload_hash(request)]

CredentialScope(self, date_stamp) ==
    [date_stamp |-> date_stamp, region |-> self.region, service |-> self.service,
     terminator |-> "aws4_request"]

_create_string_to_sign(self, request, timestamp) ==
    [algorithm |-> "AWS4-HMAC-SHA256", timestamp |-> timestamp,
     credential_scope |-> CredentialScope(self, DateStamp(timestamp)),
     canonical_request_hash |-> sha256(_create_canonical_request(request))]

_calculate_signature(self, string_to_sign, date_stamp) ==
    LET k_date == hmac_sha256(<<"AWS4", self.secret_key>>, date_stamp)
        k_region == hmac_sha256(k_date, self.region)
        k_service == hmac_sha256(k_region, self.service)
        k_signing == hmac_sha256(k_service, "aws4_request")
    IN  hmac_sha256(k_signing, string_to_sign)

\* As SignatureV4_sign_request, setting x-amz-date from the clock whether or
\* not the request has one.
SignatureV4_sign_request_Redated(self, request, now) ==
    LET dated == Del(Put(request.headers, "x-amz-date", strftime(now)), "Date")
        r == [request EXCEPT !.headers = dated]
        timestamp == _get_timestamp_from_request(r, now)
        date_stamp == DateStamp(timestamp)
        string_to_sign == _create_string_to_sign(self, r, timestamp)
        signature == _calculate_signature(self, string_to_sign, date_stamp)
        auth_header ==
            [scheme |-> "AWS4-HMAC-SHA256", access_key |-> self.access_key,
             credential_scope |-> CredentialScope(self, date_stamp),
             signed_headers |-> _get_signed_headers(r.headers),
             signature |-> signature]
    IN  [request |-> [r EXCEPT !.headers = Put(dated, "Authorization", auth_header)],
         timestamp |-> timestamp, resource |-> <<>>]

\* The result: the request, its headers changed in place, and the locals
\* timestamp and (V2) canonicalized resource of the call.
SignatureV4_sign_request(self, request, now) ==
    LET dated ==
            IF "x-amz-date" \notin DOMAIN request.headers
            THEN Del(Put(request.headers, "x-amz-date", strftime(now)), "Date")
            ELSE request.headers
        r == [request EXCEPT !.headers = dated]
        timestamp == _get_timestamp_from_request(r, now)
        date_stamp == DateStamp(timestamp)
        string_to_sign == _create_string_to_sign(self, r, timestamp)
        signature == _calculate_signature(self, string_to_sign, date_stamp)
        auth_header ==
            [scheme |-> "AWS4-HMAC-SHA256", access_key |-> self.access_key,
             credential_scope |-> CredentialScope(self, date_stamp),
             signed_headers |-> _get_signed_headers(r.headers),
             signature |-> signature]
    IN  [request |-> [r EXCEPT !.headers = Put(dated, "Authorization", auth_header)],
         timestamp |-> timestamp, resource |-> <<>>]

(***************************************************************************)
(* SignatureV2                                                             *)
(***************************************************************************)
SUB_RESOURCE_KEYS ==
    {"acl", "lifecycle", "location", "logging", "notification", "partNumber",
     "policy", "requestPayment", "torrent", "uploadId", "uploads", "versionId",
     "versioning", "versions", "website"}

\* [a-z0-9\-]
LabelToken(t) == t \notin {".", ":", "/"}

\* s3([a-z0-9\-]+)?\.amazonaws\.com$
S3Suffix(s) ==
    /\ Len(s) >= 5
    /\ s[1] = "s3"
    /\ SubSeq(s, Len(s) - 3, Len(s)) = DotAmazonawsCom
    /\ \A i \in 2..(Len(s) - 4) : LabelToken(s[i])

\* BUCKET_VHOST_MATCH.match(hostname): whether it matches, and the first
\* group with its dot stripped.
BUCKET_VHOST_MATCH(hostname) ==
    LET dot == Find(hostname, <<".">>)
        label == SubSeq(hostname, 1, dot - 1)
    IN  IF S3Suffix(hostname)
        THEN [match |-> TRUE, bucket |-> <<>>]
        ELSE IF /\ dot > 1
                /\ \A i \in 1..Len(label) : LabelToken(label[i])
                /\ S3Suffix(SubSeq(hostname, dot + 1, Len(hostname)))
        THEN [match |-> TRUE, bucket |-> label]
        ELSE [match |-> FALSE, bucket |-> <<>>]

DigitWords == {"127", "0", "1", "9000"}

_is_minio_or_local(hostname) ==
    \/ Head(hostname) \in {"localhost", "minio"}
    \/ (Len(hostname) >= 7
        /\ SubSeq(hostname, 1, 7) = <<"127", ".", "0", ".", "0", ".", "1">>)
    \/ \A i \in 1..Len(hostname) : hostname[i] \in DigitWords \cup {".", ":"}

_get_subresource_query_string(query) ==
    LET kept == SelectSeq(query, LAMBDA p : p.key \in SUB_RESOURCE_KEYS)
        sub_resources ==
            [i \in 1..Len(kept) |->
                IF kept[i].eq /\ kept[i].value # ""
                THEN <<kept[i].key, "=", kept[i].value>>
                ELSE <<kept[i].key>>]
        rank == [p \in Range(sub_resources) |->
                    RankBase * Rank(p[1], KeyOrder)
                    + (IF Len(p) = 1 THEN 0 ELSE Rank(p[3], ValueOrder))]
    IN  IF sub_resources # <<>>
        THEN <<"?">> \o Join(SortByRank(sub_resources, rank), "&")
        ELSE <<>>

_get_canonicalized_resource(parsed_url) ==
    LET path == IF parsed_url.path # <<>> THEN parsed_url.path ELSE <<"/">>
        hostname == parsed_url.hostname
        m == BUCKET_VHOST_MATCH(hostname)
        resource ==
            IF hostname = <<>> THEN path
            ELSE IF m.match
            THEN IF m.bucket # <<>> THEN <<"/">> \o m.bucket \o path ELSE path
            ELSE IF ~_is_minio_or_local(hostname)
            THEN <<"/">> \o hostname \o path
            ELSE path
    IN  resource \o _get_subresource_query_string(parsed_url.query)

\* As _get_canonicalized_amz_headers, a later key of the same lower-case
\* name taking the place of an earlier one.
_get_canonicalized_amz_headers_LastWins(headers) ==
    LET keys == SelectSeq(HeaderKeys(headers), LAMBDA k : StartsWithXAmz(Lower(k)))
        names == SelectSeq(HeaderOrder, LAMBDA n : Spelled(keys, n) # <<>>)
    IN  [i \in 1..Len(names) |->
            LET spelled == Spelled(keys, names[i])
            IN  <<names[i], <<headers[spelled[Len(spelled)]]>>>>]

\* A line "name:value" for each lower-case name that starts with x-amz-,
\* sorted; the value of a line is the values of the keys of that lower-case
\* name in iteration order, which the code joins with ",".
_get_canonicalized_amz_headers(headers) ==
    LET keys == SelectSeq(HeaderKeys(headers), LAMBDA k : StartsWithXAmz(Lower(k)))
        names == SelectSeq(HeaderOrder, LAMBDA n : Spelled(keys, n) # <<>>)
    IN  [i \in 1..Len(names) |->
            LET spelled == Spelled(keys, names[i])
            IN  <<names[i], [j \in 1..Len(spelled) |-> headers[spelled[j]]]>>]

\* As string_to_sign, the Date line being the Date header whatever else the
\* request holds.
string_to_sign_Dated(request) ==
    [method |-> Upper(request.method),
     content_md5 |-> Get(request.headers, "Content-MD5"),
     content_type |-> IF Get(request.headers, "Content-Type") # EmptyValue
                      THEN Get(request.headers, "Content-Type")
                      ELSE Get(request.headers, "content-type"),
     date |-> Get(request.headers, "Date"),
     canonicalized_amz_headers |-> _get_canonicalized_amz_headers(request.headers),
     canonicalized_resource |-> _get_canonicalized_resource(request.url)]

string_to_sign(request) ==
    [method |-> Upper(request.method),
     content_md5 |-> Get(request.headers, "Content-MD5"),
     content_type |-> IF Get(request.headers, "Content-Type") # EmptyValue
                      THEN Get(request.headers, "Content-Type")
                      ELSE Get(request.headers, "content-type"),
     date |-> IF "x-amz-date" \in DOMAIN request.headers THEN EmptyValue
              ELSE Get(request.headers, "Date"),
     canonicalized_amz_headers |-> _get_canonicalized_amz_headers(request.headers),
     canonicalized_resource |-> _get_canonicalized_resource(request.url)]

_generate_signature(self, msg) == hmac_sha1(self.secret_key, msg)

SignatureV2_sign_request(self, request, now) ==
    LET sts == string_to_sign(request)
        auth_header ==
            [scheme |-> "AWS", access_key |-> self.access_key,
             signature |-> _generate_signature(self, sts)]
    IN  [request |-> [request EXCEPT
                        !.headers = Put(request.headers, "Authorization", auth_header)],
         timestamp |-> EmptyValue, resource |-> sts.canonicalized_resource]

sign_request(self, request, now) ==
    IF self.version = 4 THEN SignatureV4_sign_request(self, request, now)
    ELSE SignatureV2_sign_request(self, request, now)

(***************************************************************************)
(* The requests and signers of SpecSign.                                   *)
(***************************************************************************)
RequestBuckets == {b \in BucketNames : b[1] = "my" /\ b[Len(b)] # "my"} \cup {<<"my">>}

RequestHosts ==
    {VHostGlobal(b) : b \in RequestBuckets}
    \cup {VHostDash(<<"my">>, <<"eu", "-", "west", "-", "1">>)}
    \cup {S3AmazonawsCom, <<"localhost">>, <<"custom", ".", "endpoint">>}

Paths == {<<"/">>, <<"/", "key">>}

Queries ==
    {<<>>,
     <<Param("uploads", FALSE, "")>>,
     <<Param("prefix", TRUE, "foo")>>,
     <<Param("uploadId", TRUE, "u1"), Param("partNumber", TRUE, "1")>>,
     <<Param("prefix", TRUE, "foo"), Param("uploads", FALSE, "")>>,
     <<Param("uploadId", TRUE, ""), Param("acl", FALSE, "")>>}

Urls ==
    [scheme : {"https"}, hostname : RequestHosts, port : {""}, path : Paths,
     query : Queries]

\* The caller's headers: Date and x-amz-date there or not, in a format the
\* code takes or in another; Content-Type with a body.
DateValues ==
    {Value("%a, %d %b %Y %H:%M:%S GMT", 1), Value("%Y-%m-%d %H:%M:%S", 1)}

AmzDateValues == {strftime(1), Value("%Y-%m-%dT%H:%M:%SZ", 1)}

HeaderSets ==
    {h \in [{"Date", "x-amz-date", "Content-Type"} ->
                DateValues \cup AmzDateValues \cup {EmptyValue, Value("text/plain", 0)}] :
        /\ h["Date"] \in DateValues \cup {EmptyValue}
        /\ h["x-amz-date"] \in AmzDateValues \cup {EmptyValue}
        /\ h["Content-Type"] = EmptyValue}

\* The headers that are there: those of h that are not marked as missing.
Headers(h) == [n \in {x \in DOMAIN h : h[x] # EmptyValue} |-> h[n]]

Methods == {"GET", "put"}

Body(method) == IF method = "put" THEN BodyOf("str", "data") ELSE NoneBody

ContentType(method) == IF method = "put" THEN Value("text/plain", 0) ELSE EmptyValue

SignRequests ==
    {[method |-> m, url |-> u,
      headers |-> Headers([h EXCEPT !["Content-Type"] = ContentType(m)]),
      body |-> Body(m)] :
        m \in Methods, u \in Urls, h \in HeaderSets}

Signers ==
    {SignatureV2("AK", "SK", S3AmazonawsCom),
     SignatureV4("AK", "SK", S3AmazonawsCom, NoRegion)}

\* A request object handed to the signer, and the instant of its last
\* signing (0: not signed yet).
Copy(request) == [request |-> request, at |-> 0]

(***************************************************************************)
(* Spec: the multipart-upload requests run for MultipartUpload objects.    *)
(* A request is constructed from the session, then run; the caller then    *)
(* lets go of the request and its result.                                  *)
(***************************************************************************)
SessionIds == {"s1", "s2"}

\* phase and assignedBy are not fields of the object: they record the stage
\* of the upload's life the operations run so far have brought it to
\* (Created, Active, Completed, Aborted), and who set uploadId.
NoSession ==
    [exists |-> FALSE, key |-> "", uploadId |-> None, assignedBy |-> "nobody",
     phase |-> "Created"]

Terminal == {"Completed", "Aborted"}

\* The stage after an operation that returned: initiate opens the upload,
\* complete and abort end an open one.
PhaseAfter(phase, op, outcome) ==
    IF outcome # "return" THEN phase
    ELSE IF op = "initiate" /\ phase = "Created" THEN "Active"
    ELSE IF op = "complete" /\ phase = "Active" THEN "Completed"
    ELSE IF op = "abort" /\ phase = "Active" THEN "Aborted"
    ELSE phase

NoRequest == [none |-> TRUE]

Pending == Result("pending", None, <<>>, <<>>)

NoAnswer == [status |-> "none", body |-> NoBody]

Op(op, sid, req, result) ==
    [op |-> op, sid |-> sid, req |-> req, answer |-> NoAnswer, result |-> result]

NoOp == Op("none", "", NoRequest, Result("none", None, <<>>, <<>>))

AtHand(op) == lastOp.op = op /\ lastOp.result = Pending

\* MultipartUpload(conn, bucket, key): a session with no upload id yet.
MultipartUpload(key) ==
    [exists |-> TRUE, key |-> key, uploadId |-> None, assignedBy |-> "nobody",
     phase |-> "Created"]

NewSession ==
    /\ lastOp = NoOp
    /\ \E s \in SessionIds, key \in Keys :
        /\ ~sessions[s].exists
        /\ sessions' = [sessions EXCEPT ![s] = MultipartUpload(key)]
    /\ UNCHANGED <<lastOp, listVars, signVars, partVars>>

\* MultipartUpload.initiate: runs the request and keeps the id it returns.
ConstructInitiate ==
    /\ lastOp = NoOp
    /\ \E s \in SessionIds :
        /\ sessions[s].exists
        /\ sessions[s].uploadId = None
        /\ lastOp' = Op("initiate", s,
                        InitiateMultipartUploadRequest(sessions[s].key, Bucket), Pending)
    /\ UNCHANGED <<sessions, listVars, signVars, partVars>>

RunInitiate(answer) ==
    /\ AtHand("initiate")
    /\ LET r == InitiateMultipartUploadRequest_run(lastOp.req, answer)
           s == lastOp.sid
       IN  /\ sessions' = IF r.outcome = "return"
                          THEN [sessions EXCEPT
                                  ![s].uploadId = r.ret,
                                  ![s].assignedBy = "initiate",
                                  ![s].phase = PhaseAfter(@, "initiate", r.outcome)]
                          ELSE sessions
           /\ lastOp' = [lastOp EXCEPT !.result = r, !.answer = answer]
    /\ UNCHANGED <<listVars, signVars, partVars>>

\* MultipartUpload.upload_part_from_file
ConstructUploadPart ==
    /\ lastOp = NoOp
    /\ \E s \in SessionIds, part_num \in PartNumbers, fp \in Sources,
          close \in BOOLEAN, rewind \in BOOLEAN :
        /\ sessions[s].exists
        /\ lastOp' = Op("upload_part", s,
                        UploadPartRequest(sessions[s].key, Bucket, fp, part_num,
                                          sessions[s].uploadId, close, rewind), Pending)
    /\ UNCHANGED <<sessions, listVars, signVars, partVars>>

RunUploadPart(answer) ==
    /\ AtHand("upload_part")
    /\ lastOp' = [lastOp EXCEPT !.result = UploadPartRequest_run(lastOp.req, answer),
                                !.answer = answer]
    /\ UNCHANGED <<sessions, listVars, signVars, partVars>>

\* Completing the session's upload with the caller's parts list.
ConstructComplete ==
    /\ lastOp = NoOp
    /\ \E s \in SessionIds, parts \in PartsLists :
        /\ sessions[s].exists
        /\ lastOp' = Op("complete", s,
                        CompleteUploadRequest(sessions[s].key, Bucket,
                                              sessions[s].uploadId, parts), Pending)
    /\ UNCHANGED <<sessions, listVars, signVars, partVars>>

RunComplete(answer) ==
    /\ AtHand("complete")
    /\ LET r == CompleteUploadRequest_run(lastOp.req, answer)
       IN  /\ lastOp' = [lastOp EXCEPT !.result = r, !.answer = answer]
           /\ sessions' = [sessions EXCEPT ![lastOp.sid].phase =
                                            PhaseAfter(@, "complete", r.outcome)]
    /\ UNCHANGED <<listVars, signVars, partVars>>

\* MultipartUpload.cancel_upload
ConstructAbort ==
    /\ lastOp = NoOp
    /\ \E s \in SessionIds :
        /\ sessions[s].exists
        /\ lastOp' = Op("abort", s,
                        CancelUploadRequest(sessions[s].key, Bucket,
                                            sessions[s].uploadId),
                        Pending)
    /\ UNCHANGED <<sessions, listVars, signVars, partVars>>

RunAbort(answer) ==
    /\ AtHand("abort")
    /\ LET r == CancelUploadRequest_run(lastOp.req, answer)
       IN  /\ lastOp' = [lastOp EXCEPT !.result = r, !.answer = answer]
           /\ sessions' = [sessions EXCEPT ![lastOp.sid].phase =
                                            PhaseAfter(@, "abort", r.outcome)]
    /\ UNCHANGED <<listVars, signVars, partVars>>

\* MultipartUpload.list_parts: a ListPartsRequest made with the session's
\* upload id, and its first page request.
ListPartsRequest(key, bucket, upload_id) ==
    [key |-> key, bucket |-> bucket, upload_id |-> upload_id,
     params |-> [p \in {"uploadId"} |-> upload_id]]

ConstructListParts ==
    /\ lastOp = NoOp
    /\ \E s \in SessionIds :
        /\ sessions[s].exists
        /\ lastOp' = Op("list_parts", s,
                        ListPartsRequest(sessions[s].key, Bucket, sessions[s].uploadId),
                        Pending)
    /\ UNCHANGED <<sessions, listVars, signVars, partVars>>

RunListParts(answer) ==
    /\ AtHand("list_parts")
    /\ lastOp' = [lastOp EXCEPT !.result =
                    _make_request("GET",
                                  bucket_url(lastOp.req.key, lastOp.req.bucket,
                                             lastOp.req.params),
                                  NoData, answer),
                                !.answer = answer]
    /\ UNCHANGED <<sessions, listVars, signVars, partVars>>

\* The upload listing handles one record: _extract_upload_info makes the
\* MultipartUpload object the listing yields.
UploadTags == {GoodA("uploads"), GoodB("uploads")} \cup BadTags("uploads")

ListUploadsRecord ==
    /\ lastOp = NoOp
    /\ \E s \in SessionIds, tag \in UploadTags :
        /\ ~sessions[s].exists
        /\ LET info == _extract_upload_info(tag, Bucket)
           IN  /\ sessions' =
                    IF info.some
                    THEN [sessions EXCEPT ![s] =
                            [exists |-> TRUE, key |-> info.key,
                             uploadId |-> info.uploadId, assignedBy |-> "listing",
                             phase |-> "Active"]]
                    ELSE sessions
               /\ lastOp' = Op("list_uploads", s, NoRequest,
                               Result(IF info.some THEN "yield" ELSE "skip", None,
                                      <<>>, <<>>))
    /\ UNCHANGED <<listVars, signVars, partVars>>

\* The caller lets go of the finished request and its result.
Forget ==
    /\ lastOp # NoOp
    /\ lastOp.result # Pending
    /\ lastOp' = NoOp
    /\ UNCHANGED <<sessions, listVars, signVars, partVars>>

PlainAnswers == Answers({NoBody})

InitMultipart ==
    /\ sessions = [s \in SessionIds |-> NoSession]
    /\ lastOp = NoOp

InitListIdle ==
    /\ lister = Lister("objects", "", "", "")
    /\ gen = [NewGenerator EXCEPT !.pc = "none"]
    /\ inflight = 0
    /\ requests = <<>>
    /\ pages = <<>>
    /\ yielded = <<>>
    /\ earlier = {}
    /\ consumer = "none"
    /\ server = CHOOSE t \in BadTags("objects") : TRUE

InitPartsIdle ==
    /\ workers = <<>>
    /\ files = <<>>

InitSignIdle ==
    /\ InitPartsIdle
    /\ signer = NoSigner
    /\ original = NoSignRequest
    /\ copies = <<>>
    /\ signing = NoSigning
    /\ clock = 1

Init == InitMultipart /\ InitListIdle /\ InitSignIdle

Next ==
    \/ NewSession
    \/ ConstructInitiate
    \/ \E a \in Answers(InitiateBodies) : RunInitiate(a)
    \/ ConstructUploadPart
    \/ \E a \in PlainAnswers : RunUploadPart(a)
    \/ ConstructComplete
    \/ \E a \in PlainAnswers : RunComplete(a)
    \/ ConstructAbort
    \/ \E a \in PlainAnswers : RunAbort(a)
    \/ ConstructListParts
    \/ \E a \in PlainAnswers : RunListParts(a)
    \/ ListUploadsRecord
    \/ Forget

Spec == Init /\ [][Next]_vars

(***************************************************************************)
(* SpecList: a consumer iterates one listing request.  The generator runs  *)
(* only inside next(): from next() to the yield, the end or the exception. *)
(***************************************************************************)
\* run(): return iter(self).  A new generator; the request object keeps its
\* fields.
Run ==
    /\ Idle(gen)
    /\ gen' = NewGenerator
    /\ requests' = <<>>
    /\ pages' = <<>>
    /\ yielded' = <<>>
    /\ earlier' = IF PagesPassed(gen, pages) > 0
                   THEN PassedCursors(gen, requests, pages) ELSE earlier
    /\ consumer' = "none"
    /\ UNCHANGED <<lister, inflight, server, mpVars, signVars, partVars>>

\* next() on a generator that has not started: the body runs to its loop.
PullStart ==
    /\ gen.pc = "created"
    /\ gen' = [gen EXCEPT !.pc = "fetch"]
    /\ consumer' = "waiting"
    /\ UNCHANGED <<lister, inflight, requests, pages, yielded, server, earlier, mpVars,
                   signVars, partVars>>

\* As Resumed, the marker left as it was.
Resumed_KeepsMarker(kind, g, last) == [g EXCEPT !.pc = "tags"]

\* The generator after next() resumes it at a yield: ListRequest sets its
\* marker to the key of the record it yielded, then goes on with the page.
Resumed(kind, g, last) ==
    [g EXCEPT !.pc = "tags", !.marker = IF kind = "objects" THEN last.key ELSE @]

PullResume ==
    /\ gen.pc = "suspended"
    /\ gen' = Resumed(lister.kind, gen, yielded[Len(yielded)])
    /\ consumer' = "waiting"
    /\ UNCHANGED <<lister, inflight, requests, pages, yielded, server, earlier, mpVars,
                   signVars, partVars>>

\* next() on a generator that has ended: StopIteration, and nothing runs.
PullFinished ==
    /\ gen.pc \in {"finished", "failed"}
    /\ consumer' = "StopIteration"
    /\ UNCHANGED <<lister, gen, inflight, requests, pages, yielded, server, earlier, mpVars,
                   signVars, partVars>>

\* self._make_request("GET", url, params={... the cursor ...}): sent.
SendPageRequest ==
    /\ gen.pc = "fetch"
    /\ Len(requests) < MaxRequests
    /\ requests' = Append(requests, Cursor(lister, gen))
    /\ inflight' = inflight + 1
    /\ gen' = [gen EXCEPT !.pc = "waiting"]
    /\ UNCHANGED <<lister, pages, yielded, consumer, server, earlier, mpVars,
                   signVars, partVars>>

\* The answer is a page: ET.fromstring gives its root.
ReceivePage(page) ==
    /\ gen.pc = "waiting"
    /\ inflight' = inflight - 1
    /\ pages' = Append(pages, page)
    /\ gen' = [gen EXCEPT !.pc = "tags", !.page = page, !.idx = 0]
    /\ UNCHANGED <<lister, requests, yielded, consumer, server, earlier, mpVars,
                   signVars, partVars>>

\* The answer is a failure: raise_for_status raises for a status that is no
\* success, ET.fromstring for a body that is not well-formed.
ReceiveFailure(error) ==
    /\ gen.pc = "waiting"
    /\ inflight' = inflight - 1
    /\ gen' = AfterFailure(gen)
    /\ consumer' = error
    /\ UNCHANGED <<lister, requests, pages, yielded, server, earlier, mpVars,
                   signVars, partVars>>

\* The next record of the page gives an info: it is yielded.
YieldRecord ==
    /\ gen.pc = "tags"
    /\ gen.idx < Len(gen.page.tags)
    /\ LET info == Extract(lister.kind, gen.page.tags[gen.idx + 1])
       IN  /\ info.some
           /\ yielded' = Append(yielded, info)
    /\ gen' = AfterYield(gen)
    /\ consumer' = "item"
    /\ UNCHANGED <<lister, inflight, requests, pages, server, earlier, mpVars,
                   signVars, partVars>>

\* The next record of the page gives None: on to the one after it.
SkipRecord ==
    /\ gen.pc = "tags"
    /\ gen.idx < Len(gen.page.tags)
    /\ ~Extract(lister.kind, gen.page.tags[gen.idx + 1]).some
    /\ gen' = AfterSkip(gen)
    /\ UNCHANGED <<lister, inflight, requests, pages, yielded, consumer, server, earlier, mpVars,
                   signVars, partVars>>

\* The records of the page are done and the page says there is more: the
\* markers on self move, and the loop goes round.
NextPage ==
    /\ gen.pc = "tags"
    /\ gen.idx = Len(gen.page.tags)
    /\ More(gen.page)
    /\ lister' = NextMarkers(lister, gen.page)
    /\ gen' = AfterPage(gen)
    /\ UNCHANGED <<inflight, requests, pages, yielded, consumer, server, earlier, mpVars,
                   signVars, partVars>>

\* The records of the page are done and the page does not say there is
\* more: the generator returns.
EndOfListing ==
    /\ gen.pc = "tags"
    /\ gen.idx = Len(gen.page.tags)
    /\ ~More(gen.page)
    /\ gen' = AfterPage(gen)
    /\ consumer' = "StopIteration"
    /\ UNCHANGED <<lister, inflight, requests, pages, yielded, server, earlier, mpVars,
                   signVars, partVars>>

InitList ==
    /\ InitMultipart
    /\ InitSignIdle
    /\ lister \in Listers
    /\ server \in BadTags(lister.kind)
    /\ gen = [NewGenerator EXCEPT !.pc = "none"]
    /\ inflight = 0
    /\ requests = <<>>
    /\ pages = <<>>
    /\ yielded = <<>>
    /\ earlier = {}
    /\ consumer = "none"

NextList ==
    \/ Run
    \/ PullStart
    \/ PullResume
    \/ PullFinished
    \/ SendPageRequest
    \/ \E page \in Pages(lister.kind, server) : ReceivePage(page)
    \/ \E error \in {"HTTPError", "ParseError"} : ReceiveFailure(error)
    \/ YieldRecord
    \/ SkipRecord
    \/ NextPage
    \/ EndOfListing

SpecList == InitList /\ [][NextList]_vars

(***************************************************************************)
(* Properties of the multipart-upload requests (Spec).                     *)
(***************************************************************************)
Ran(op) == lastOp.op = op /\ lastOp.result # Pending

\* The query part that carries an upload id: uploadId=<id>, bare for None.
UploadIdPart(id) == IF id # None THEN <<"uploadId", id>> ELSE <<"uploadId">>

InQuery(part, query) == \E i \in 1..Len(query) : query[i] = part

\* C1: completing a multipart upload with an empty or absent parts list
\* raises ValueError, and the run makes no transport call.
C1_EmptyPartsListRaisesBeforeTransport ==
    (Ran("complete")
     /\ (lastOp.req.parts_list.isNone \/ lastOp.req.parts_list.list = <<>>))
    => (lastOp.result.outcome = "ValueError" /\ lastOp.result.sent = <<>>)

C1_Witness ==
    /\ Ran("complete")
    /\ ~lastOp.req.parts_list.isNone
    /\ lastOp.req.parts_list.list = <<>>
    /\ lastOp.result.outcome = "ValueError"

\* C2: completing with a non-empty parts list in which some entry, at any
\* position, lacks the part number or the ETag raises ValueError, and the
\* run makes no transport call: no body, partial or whole, is sent.
C2_IncompleteEntryRaisesBeforeTransport ==
    (Ran("complete")
     /\ ~lastOp.req.parts_list.isNone
     /\ \E i \in 1..Len(lastOp.req.parts_list.list) :
            ~HasBothKeys(lastOp.req.parts_list.list[i]))
    => (lastOp.result.outcome = "ValueError" /\ lastOp.result.sent = <<>>)

C2_Witness ==
    /\ Ran("complete")
    /\ Len(lastOp.req.parts_list.list) = 2
    /\ HasBothKeys(lastOp.req.parts_list.list[1])
    /\ ~lastOp.req.parts_list.list[2].has_etag
    /\ lastOp.result.outcome = "ValueError"
    /\ lastOp.result.sent = <<>>

AllComplete(parts_list) ==
    /\ ~parts_list.isNone
    /\ parts_list.list # <<>>
    /\ \A i \in 1..Len(parts_list.list) : HasBothKeys(parts_list.list[i])

\* The i-th <Part> element of a body made of n of them inside one root.
PartElement(body, i) == SubSeq(body, 8 * (i - 1) + 2, 8 * i + 1)

Count(seq, x) == Cardinality({i \in 1..Len(seq) : seq[i] = x})

\* C3: for a valid parts list of length n the run sends one body: one
\* CompleteMultipartUpload element holding exactly n Part elements, the
\* i-th with the part number and the ETag of the i-th entry supplied.
C3_BodyKeepsPartsInCallerOrder ==
    (Ran("complete") /\ AllComplete(lastOp.req.parts_list))
    => LET parts == lastOp.req.parts_list.list
           n == Len(parts)
       IN  /\ Len(lastOp.result.sent) = 1
           /\ lastOp.result.sent[1].data.kind = "xml"
           /\ LET body == lastOp.result.sent[1].data.xml
              IN  /\ Len(body) = 8 * n + 2
                  /\ Head(body) = "<CompleteMultipartUpload>"
                  /\ body[Len(body)] = "</CompleteMultipartUpload>"
                  /\ Count(body, "<CompleteMultipartUpload>") = 1
                  /\ Count(body, "<Part>") = n
                  /\ \A i \in 1..n :
                        PartElement(body, i) =
                            <<"<Part>",
                              "<PartNumber>", ToString(parts[i].part_number),
                              "</PartNumber>",
                              "<ETag>", parts[i].etag, "</ETag>",
                              "</Part>">>

C3_Witness ==
    /\ Ran("complete")
    /\ AllComplete(lastOp.req.parts_list)
    /\ Len(lastOp.req.parts_list.list) = 2
    /\ lastOp.req.parts_list.list[1].part_number = 2
    /\ lastOp.req.parts_list.list[2].part_number = 1
    /\ Len(lastOp.result.sent) = 1
    /\ lastOp.result.sent[1].data.xml[4] = "2"

HasUploadId(body) == body.wellformed /\ body.UploadId \notin {Absent, None, ""}

\* C9: initiate issues exactly one POST to the object URL with the bare
\* uploads marker; with a 2xx answer it returns the text of the UploadId
\* element when that is there and not empty, and raises ValueError when the
\* element is absent or empty or the body is not well-formed, so that it
\* never returns an empty or missing upload id.
C9_InitiateReturnsUploadIdOrRaises ==
    Ran("initiate")
    => /\ lastOp.result.sent =
            <<Call("POST",
                   [bucket |-> Bucket, key |-> sessions[lastOp.sid].key,
                    query |-> << <<"uploads">> >>],
                   NoData)>>
       /\ lastOp.answer.status = StatusOK
            => IF HasUploadId(lastOp.answer.body)
               THEN /\ lastOp.result.outcome = "return"
                    /\ lastOp.result.ret = lastOp.answer.body.UploadId
               ELSE lastOp.result.outcome = "ValueError"
       /\ lastOp.result.outcome = "return"
            => lastOp.result.ret \notin {Absent, None, ""}

C9_Witness ==
    /\ Ran("initiate")
    /\ lastOp.answer.status = StatusOK
    /\ lastOp.answer.body.wellformed
    /\ lastOp.answer.body.UploadId = ""
    /\ lastOp.result.outcome = "ValueError"
    /\ Len(lastOp.result.sent) = 1

\* C10 as stated: an upload id a session object holds was assigned by
\* initiate, and by no other operation.
C10_AssignedOnlyByInitiate ==
    \A s \in SessionIds :
        sessions[s].uploadId # None => sessions[s].assignedBy = "initiate"

\* C10, amended: the upload id of a session object is assigned once, by
\* initiate or, for an object the upload listing makes for a listed record,
\* by the listing as it makes the object; no other operation assigns or
\* changes it, and every upload-part, complete and abort request of the
\* session carries the session's upload id.
C10_UploadIdAssignedOnceAndCarried ==
    [][/\ \A s \in SessionIds :
            sessions'[s].uploadId # sessions[s].uploadId
            => /\ sessions[s].uploadId = None
               /\ lastOp'.sid = s
               /\ \/ lastOp'.op = "initiate"
                  \/ lastOp'.op = "list_uploads" /\ ~sessions[s].exists
       /\ lastOp'.op \in {"upload_part", "complete", "abort"}
            => /\ lastOp'.req.upload_id = sessions'[lastOp'.sid].uploadId
               /\ \A i \in 1..Len(lastOp'.result.sent) :
                    InQuery(UploadIdPart(sessions'[lastOp'.sid].uploadId),
                            lastOp'.result.sent[i].url.query)]_vars

C10_Witness ==
    /\ Ran("upload_part")
    /\ sessions[lastOp.sid].assignedBy = "initiate"
    /\ Len(lastOp.result.sent) = 1
    /\ InQuery(<<"uploadId", sessions[lastOp.sid].uploadId>>,
               lastOp.result.sent[1].url.query)
    /\ \E s \in SessionIds : sessions[s].assignedBy = "listing"

(***************************************************************************)
(* Properties of a listing (SpecList).                                     *)
(***************************************************************************)
Parseable(tag) == Extract(lister.kind, tag).some

InfosOf(tags) ==
    LET good == SelectSeq(tags, Parseable)
    IN  [i \in 1..Len(good) |-> Extract(lister.kind, good[i])]

\* The infos of the parseable records of the pages, in page and document
\* order.
RecordsOf(ps) == Flatten([i \in 1..Len(ps) |-> InfosOf(ps[i].tags)])

Truncated(page) == page.IsTruncated = "true"

\* C4: no page request is issued after a page whose IsTruncated is absent
\* or not "true"; and an iteration that has ended on pages p1..pn, of which
\* p1..p(n-1) are truncated and pn is not, has issued exactly n requests and
\* yielded every parseable record of p1..pn, in page and document order.
C4_ListingYieldsAllPagesInOrder ==
    /\ \A j \in 1..(Len(requests) - 1) : Truncated(pages[j])
    /\ gen.pc = "finished"
        => /\ Len(requests) = Len(pages)
           /\ pages # <<>>
           /\ ~Truncated(pages[Len(pages)])
           /\ yielded = RecordsOf(pages)
           /\ consumer = "StopIteration"

C4_Witness ==
    /\ gen.pc = "finished"
    /\ Len(pages) = 3
    /\ Truncated(pages[1])
    /\ Truncated(pages[2])
    /\ pages[3].IsTruncated = "false"
    /\ Len(yielded) = 6
    /\ Len(requests) = 3

\* C5: within one iteration the cursor of each page request differs from
\* the cursor of every earlier page request.
C5_CursorsNeverRepeat ==
    \A i \in 1..Len(requests), j \in 1..Len(requests) :
        i < j => requests[i] # requests[j]

IsPrefix(a, b) == Len(a) <= Len(b) /\ a = SubSeq(b, 1, Len(a))

\* C6: the generator runs, and a page request is in flight, only while the
\* consumer is inside next(); a generator just created has issued no
\* request; page k+1 is requested only when every record of pages 1..k has
\* been yielded; a consumer holding its m-th element has caused no request
\* past the page that element is on; at most one request is in flight.
C6_ListingIsDemandDriven ==
    /\ inflight <= 1
    /\ gen.pc \in {"fetch", "waiting", "tags"} <=> consumer = "waiting"
    /\ inflight = 1 <=> gen.pc = "waiting"
    /\ gen.pc \in {"none", "created"} => requests = <<>>
    /\ Len(requests) > Len(pages) => yielded = RecordsOf(pages)
    /\ gen.pc = "suspended"
        => /\ consumer = "item"
           /\ Len(requests) = Len(pages)
           /\ pages # <<>>
           /\ Len(yielded) > Len(RecordsOf(SubSeq(pages, 1, Len(pages) - 1)))
           /\ IsPrefix(yielded, RecordsOf(pages))

C6_Witness ==
    /\ gen.pc = "suspended"
    /\ Len(requests) = 2
    /\ Len(yielded) = 3
    /\ Len(pages[2].tags) = 3
    /\ Truncated(pages[2])

\* The elements a record of each kind must have.
MissingRequired(kind, tag) ==
    CASE kind = "objects" ->
            Missing(tag.Key) \/ Missing(tag.Size) \/ Missing(tag.LastModified)
            \/ Missing(tag.ETag)
      [] kind = "uploads" -> Missing(tag.Key) \/ Missing(tag.UploadId)
      [] kind = "parts" ->
            Missing(tag.PartNumber) \/ Missing(tag.LastModified) \/ Missing(tag.ETag)
            \/ Missing(tag.Size)

NotANumber(e) == ~Missing(e) /\ (e.st = "empty" \/ e.text \notin {"1", "2", "3", "7", "12"})

BadTimestamp(e) == ~Missing(e) /\ (e.st = "empty" \/ e.text # Conforming)

\* A record that fails to parse: a required element missing, a size or part
\* number that is no number, an object timestamp that is malformed.
FailsToParse(kind, tag) ==
    \/ MissingRequired(kind, tag)
    \/ kind = "objects" /\ (NotANumber(tag.Size) \/ BadTimestamp(tag.LastModified))
    \/ kind = "parts" /\ (NotANumber(tag.Size) \/ NotANumber(tag.PartNumber))

\* The records the iteration has gone through: those of the pages before
\* the current one, and the records of the current page up to its position.
Processed ==
    IF pages = <<>> THEN <<>>
    ELSE Flatten([i \in 1..(Len(pages) - 1) |-> pages[i].tags])
         \o SubSeq(pages[Len(pages)].tags, 1, gen.idx)

WellFormedRecord(tag) == ~FailsToParse(lister.kind, tag)

\* C7: a record that fails to parse is skipped and raises nothing: the
\* records yielded are the well-formed ones among the records gone through,
\* in their order, whatever malformed records stand between them, and the
\* generator fails only on a page request.
C7_MalformedRecordsAreSkipped ==
    /\ LET good == SelectSeq(Processed, WellFormedRecord)
       IN  yielded = [i \in 1..Len(good) |-> Extract(lister.kind, good[i])]
    /\ gen.pc = "failed" => consumer \in {"HTTPError", "ParseError", "StopIteration"}

C7_Witness ==
    /\ lister.kind = "objects"
    /\ Missing(server.Size)
    /\ Len(pages) = 1
    /\ gen.idx = 3
    /\ pages[1].tags[2] = server
    /\ Len(yielded) = 2
    /\ yielded[1].key = "a"
    /\ yielded[2].key = "b"

\* C8: a page request that fails hands its error to the consumer at that
\* next(), leaves the records yielded before as they are and ends the
\* iteration: the generator yields no further record and issues no
\* further request.
C8_PageFailureEndsTheListing ==
    [][/\ (inflight' < inflight /\ pages' = pages)
            => /\ gen'.pc = "failed"
               /\ consumer' \in {"HTTPError", "ParseError"}
               /\ yielded' = yielded
               /\ requests' = requests
       /\ gen.pc = "failed"
            => \/ /\ gen' = gen
                  /\ requests' = requests
                  /\ yielded' = yielded
                  /\ inflight' = inflight
                  /\ consumer' = "StopIteration"
               \/ /\ gen' = NewGenerator
                  /\ requests' = <<>>
                  /\ inflight' = inflight]_vars

C8_Witness ==
    /\ gen.pc = "failed"
    /\ consumer = "StopIteration"
    /\ Len(requests) = 2
    /\ Len(pages) = 1
    /\ Len(yielded) = 2
    /\ inflight = 0

(***************************************************************************)
(* The life of a session (Spec).                                           *)
(***************************************************************************)
\* The step in which the request at hand is run and reaches the transport.
Sends(op) ==
    /\ AtHand(op)
    /\ lastOp'.op = op
    /\ lastOp'.result.sent # <<>>

\* C11: the life of a session goes one way, Created -> Active -> Completed
\* or Aborted: no upload-part, complete or abort request is sent while the
\* session has no upload id, and no upload-part or complete request is sent
\* for a session that is Completed or Aborted; abort alone may be sent again.
C11_LifecycleIsOneDirectional ==
    [][/\ (Sends("upload_part") \/ Sends("complete") \/ Sends("abort"))
            => sessions[lastOp.sid].uploadId # None
       /\ (Sends("upload_part") \/ Sends("complete"))
            => sessions[lastOp.sid].phase \notin Terminal]_vars

\* The one DELETE an abort of the session sends: a function of the session's
\* key and upload id alone.
AbortCall(session) ==
    Call("DELETE",
         [bucket |-> Bucket, key |-> session.key,
          query |-> <<UploadIdPart(session.uploadId)>>],
         NoData)

\* C12: every abort sends exactly one DELETE that carries the upload id, the
\* same one whatever the session has been through (open, completed or
\* aborted already), and hands the service's answer on: the response when
\* the status is a success, the transport's HTTPError when it is not.
C12_AbortSendsTheSameDeleteEveryTime ==
    Ran("abort")
    => /\ lastOp.result.sent = <<AbortCall(sessions[lastOp.sid])>>
       /\ lastOp.answer.status = StatusOK
            => (lastOp.result.outcome = "return" /\ lastOp.result.ret = "response")
       /\ lastOp.answer.status = StatusError
            => lastOp.result.outcome = "HTTPError"

\* An abort issued again for a session already aborted, answered with an
\* error status.
C12_Witness ==
    /\ Ran("abort")
    /\ sessions[lastOp.sid].phase = "Aborted"
    /\ lastOp.answer.status = StatusError
    /\ lastOp.result.outcome = "HTTPError"
    /\ lastOp.result.sent = <<AbortCall(sessions[lastOp.sid])>>

(***************************************************************************)
(* The source of an uploaded part (Spec).                                  *)
(***************************************************************************)
\* The one PUT of an upload-part request, with both query parameters.
PartCall(req) ==
    Call("PUT",
         [bucket |-> req.bucket, key |-> req.key,
          query |-> <<(<<"partNumber", ToString(req.part_num)>>),
                      UploadIdPart(req.upload_id)>>],
         FpData)

\* What is done to the source, in order, when it is rewound and closed as
\* the two flags say.
SourceEvents(rewinds, closes) ==
    (IF rewinds THEN <<"seek">> ELSE <<>>) \o <<"send">>
    \o (IF closes THEN <<"close">> ELSE <<>>)

\* C13 as stated: the source is sought to its start before the PUT whenever
\* rewind is requested and closed after the PUT, returned or raised,
\* whenever close is requested; it is neither sought nor closed otherwise.
C13_RewindSendCloseAsRequested ==
    Ran("upload_part")
    => /\ lastOp.result.sent = <<PartCall(lastOp.req)>>
       /\ lastOp.result.events = SourceEvents(lastOp.req.rewind, lastOp.req.close)

\* C13, amended: the source is sought to its start before the PUT when
\* rewind is requested and the source has a seek method, and closed after
\* the PUT, returned or raised, when close is requested and the source has a
\* close method; a source that lacks the method, or for which the flag is
\* not set, is neither sought nor closed.
C13_RewindSendCloseWhereTheSourceCan ==
    Ran("upload_part")
    => /\ lastOp.result.sent = <<PartCall(lastOp.req)>>
       /\ lastOp.result.events =
            SourceEvents(lastOp.req.rewind /\ lastOp.req.fp.hasSeek,
                         lastOp.req.close /\ lastOp.req.fp.hasClose)

\* A part whose PUT raised, its source rewound before and closed after.
C13_Witness ==
    /\ Ran("upload_part")
    /\ lastOp.req.rewind /\ lastOp.req.fp.hasSeek
    /\ lastOp.req.close /\ lastOp.req.fp.hasClose
    /\ lastOp.result.outcome = "HTTPError"
    /\ lastOp.result.events = <<"seek", "send", "close">>

(***************************************************************************)
(* SpecRegion: V4 signers are constructed for every endpoint.              *)
(***************************************************************************)
NewSignatureV4 ==
    /\ signer = NoSigner
    /\ \E endpoint \in Endpoints, region \in RegionArgs :
        /\ signer' = SignatureV4("AK", "SK", endpoint, region)
        /\ signing' = [call |-> "__init__", endpoint |-> endpoint, region |-> region]
    /\ UNCHANGED <<original, copies, clock, mpVars, listVars, partVars>>

DropSigner ==
    /\ signer # NoSigner
    /\ signer' = NoSigner
    /\ signing' = NoSigning
    /\ UNCHANGED <<original, copies, clock, mpVars, listVars, partVars>>

InitRegion == InitMultipart /\ InitListIdle /\ InitSignIdle

NextRegion == NewSignatureV4 \/ DropSigner

SpecRegion == InitRegion /\ [][NextRegion]_vars

\* C17: with no region configured the region of a V4 signer is us-east-1 for
\* the host s3.amazonaws.com, {region} for s3-{region}.amazonaws.com,
\* {region} for {bucket}.s3.{region}.amazonaws.com whatever the bucket name,
\* and us-east-1 for a custom or local host; a configured region is used as
\* it is.
C17_RegionDerivedFromEndpoint ==
    signing.call = "__init__"
    => /\ signing.region # NoRegion => signer.region = signing.region
       /\ signing.region = NoRegion
            => /\ signer.endpoint = S3AmazonawsCom => signer.region = UsEast1
               /\ \A r \in Regions :
                    signer.endpoint = RegionalHost(r) => signer.region = r
               /\ \A b \in BucketNames, r \in Regions :
                    signer.endpoint = VHostRegional(b, r) => signer.region = r
               /\ signer.endpoint \in OtherHosts => signer.region = UsEast1

(***************************************************************************)
(* SpecSign: a caller makes a request twice over and has a signer sign     *)
(* each of the two request objects, at any time and any number of times.   *)
(***************************************************************************)
Sign ==
    \E i \in 1..Len(copies) :
        LET r == sign_request(signer, copies[i].request, clock)
        IN  /\ copies' = [copies EXCEPT ![i] = [request |-> r.request, at |-> clock]]
            /\ signing' = [call |-> "sign_request", copy |-> i,
                           timestamp |-> r.timestamp, resource |-> r.resource]
            /\ UNCHANGED <<signer, original, clock, mpVars, listVars, partVars>>

Tick ==
    /\ clock < MaxClock
    /\ clock' = clock + 1
    /\ UNCHANGED <<signer, original, copies, signing, mpVars, listVars, partVars>>

InitSign ==
    /\ InitMultipart
    /\ InitPartsIdle
    /\ InitListIdle
    /\ signer \in Signers
    /\ original \in SignRequests
    /\ copies = <<Copy(original), Copy(original)>>
    /\ signing = NoSigning
    /\ clock = 1

NextSign == Sign \/ Tick

SpecSign == InitSign /\ [][NextSign]_vars

Signed(i) == copies[i].at > 0

\* C14: after V4 signing the request has an x-amz-date header of the form
\* YYYYMMDDTHHMMSSZ and no Date header, whichever of the two headers it
\* came with.
C14_AmzDateSetAndDateRemoved ==
    \A i \in 1..Len(copies) :
        (signer.version = 4 /\ Signed(i))
        => /\ "x-amz-date" \in DOMAIN copies[i].request.headers
           /\ copies[i].request.headers["x-amz-date"].fmt = "%Y%m%dT%H%M%SZ"
           /\ "Date" \notin DOMAIN copies[i].request.headers

\* Two request objects made alike, each signed by V4 at an instant of its
\* own, carry the same x-amz-date.
SameTimestamp ==
    /\ signer.version = 4
    /\ Signed(1) /\ Signed(2)
    /\ copies[1].request.headers["x-amz-date"] = copies[2].request.headers["x-amz-date"]

\* C15: V4 signing is deterministic: with the same credentials, region,
\* method, URL, headers (the x-amz-date timestamp among them) and body, two
\* sign_request calls give the same Authorization header, whatever the
\* clock says at either call.
C15_V4SigningIsDeterministic ==
    SameTimestamp
    => copies[1].request.headers["Authorization"]
       = copies[2].request.headers["Authorization"]

\* A request that came with x-amz-date, signed at two different instants.
C15_Witness ==
    /\ SameTimestamp
    /\ "x-amz-date" \in DOMAIN original.headers
    /\ copies[1].at # copies[2].at
    /\ copies[1].request.headers["Authorization"]
       = copies[2].request.headers["Authorization"]

\* C16: signing, V2 and V4, leaves method, URL and body as they were and
\* neither removes nor alters a header of the caller's, but for V4 removing
\* Date; it adds Authorization and, V4 only and only when the request had
\* none, x-amz-date.
C16_SigningLeavesTheRequestAlone ==
    \A i \in 1..Len(copies) :
        Signed(i)
        => LET r == copies[i].request
           IN  /\ r.method = original.method
               /\ r.url = original.url
               /\ r.body = original.body
               /\ \A h \in DOMAIN original.headers \ {"Date"} :
                    h \in DOMAIN r.headers /\ r.headers[h] = original.headers[h]
               /\ "Date" \in DOMAIN original.headers
                    => IF "Date" \in DOMAIN r.headers
                       THEN r.headers["Date"] = original.headers["Date"]
                       ELSE signer.version = 4
               /\ DOMAIN r.headers \subseteq
                    DOMAIN original.headers \cup {"Authorization"}
                    \cup (IF signer.version = 4 THEN {"x-amz-date"} ELSE {})

\* A request with Date and Content-Type and no x-amz-date, signed by V4:
\* Date is gone, x-amz-date and Authorization are there, Content-Type is as
\* it was.
C16_Witness ==
    /\ signer.version = 4
    /\ Signed(1)
    /\ DOMAIN original.headers = {"Date", "Content-Type"}
    /\ DOMAIN copies[1].request.headers = {"x-amz-date", "Content-Type", "Authorization"}
    /\ copies[1].request.headers["Content-Type"] = original.headers["Content-Type"]
    /\ copies[1].request.body = BodyOf("str", "data")

\* The sub-resource part the claim tells of: "?" and the parameters whose
\* key is on the list, each with its value when it has one, sorted and
\* joined by "&"; nothing when no parameter is on the list.
ListedParams(query) ==
    LET listed == SelectSeq(query, LAMBDA p : p.key \in SUB_RESOURCE_KEYS)
    IN  [i \in 1..Len(listed) |->
            IF listed[i].eq /\ listed[i].value # ""
            THEN <<listed[i].key, "=", listed[i].value>>
            ELSE <<listed[i].key>>]

Ascending(parts) ==
    \A i \in 1..(Len(parts) - 1) :
        \/ Rank(parts[i][1], KeyOrder) < Rank(parts[i + 1][1], KeyOrder)
        \/ /\ parts[i][1] = parts[i + 1][1]
           /\ Len(parts[i]) <= Len(parts[i + 1])

SubResourcePart(tail, query) ==
    IF ListedParams(query) = <<>> THEN tail = <<>>
    ELSE \E parts \in [1..Len(ListedParams(query)) -> Range(ListedParams(query))] :
            /\ Range(parts) = Range(ListedParams(query))
            /\ Ascending(parts)
            /\ tail = <<"?">> \o Join(parts, "&")

\* C18: for a virtual-hosted AWS host, {bucket}.s3.amazonaws.com or
\* {bucket}.s3-{region}.amazonaws.com, the V2 CanonicalizedResource is
\* "/{bucket}", then the URL path, then "?" and the sorted, "&"-joined
\* parameters whose key is a listed sub-resource; other parameters are left
\* out, and there is no "?" when no parameter is listed.
C18_V2ResourceOfVirtualHost ==
    (signer.version = 2 /\ signing.call = "sign_request")
    => \A b \in BucketNames :
        (\/ original.url.hostname = VHostGlobal(b)
         \/ \E r \in Regions : original.url.hostname = VHostDash(b, r))
        => LET prefix == <<"/">> \o b \o original.url.path
               n == Len(prefix)
           IN  /\ Len(signing.resource) >= n
               /\ SubSeq(signing.resource, 1, n) = prefix
               /\ SubResourcePart(SubSeq(signing.resource, n + 1, Len(signing.resource)),
                                  original.url.query)

(***************************************************************************)
(* The ETag of a listed record (SpecList).                                 *)
(***************************************************************************)
\* The records of the pages that were parsed, in page and document order:
\* the i-th is the one the i-th yielded record was made from.
TagsOf(ps) == Flatten([i \in 1..Len(ps) |-> SelectSeq(ps[i].tags, Parseable)])

\* The text without the quote characters around it, if it has them.
Unquoted(text) ==
    IF Len(text) >= 2 /\ Head(text) = "\"" /\ text[Len(text)] = "\""
    THEN SubSeq(text, 2, Len(text) - 1)
    ELSE text

\* C19: an object-listing record has the ETag without the quote characters
\* around it and with nothing else taken off, so that an ETag that came
\* without quotes is whole; a part-listing record has the ETag as it came,
\* quotes and all, and LastModified as the text that came.
C19_ETagQuotesStrippedForObjectsOnly ==
    \A i \in 1..Len(yielded) :
        LET tag == TagsOf(pages)[i]
        IN  /\ lister.kind = "objects"
                => yielded[i].etag = Unquoted(tag.ETag.text)
            /\ lister.kind = "parts"
                => /\ yielded[i].etag = tag.ETag.text
                   /\ yielded[i].last_modified = TextOf(tag.LastModified)

(***************************************************************************)
(* SpecParts: threads upload parts of one session at the same time, each   *)
(* with a request and a source of its own.  run() is taken step by step:   *)
(* the seek, the adapter call, its answer, the finally clause.             *)
(***************************************************************************)
WorkerIds == 1..MaxWorkers

\* The session the parts belong to: initiated, with its upload id.
ActiveSession ==
    [exists |-> TRUE, key |-> "k1", uploadId |-> "u1", assignedBy |-> "initiate",
     phase |-> "Active"]

\* The sources of the threads: files, at their start or further on.
PartSources == {fp \in Sources : fp.hasSeek /\ fp.hasClose}

\* Thread w uploads part w from its own source.
Worker(req) ==
    [req |-> req, pc |-> "ready", events |-> <<>>, sent |-> <<>>,
     read |-> "nothing", answer |-> NoAnswer, outcome |-> "pending", ret |-> None]

\* if self.rewind and hasattr(self.fp, "seek"): self.fp.seek(0, os.SEEK_SET)
Rewind ==
    \E w \in WorkerIds :
        /\ workers[w].pc = "ready"
        /\ LET seeks == workers[w].req.rewind /\ workers[w].req.fp.hasSeek
           IN  /\ workers' = [workers EXCEPT
                                ![w].pc = "rewound",
                                ![w].events = IF seeks THEN @ \o <<"seek">> ELSE @]
               /\ files' = IF seeks THEN [files EXCEPT ![w].pos = "start"] ELSE files
        /\ UNCHANGED <<mpVars, listVars, signVars>>

\* The adapter call: the PUT goes out with the source from where it stands.
Send ==
    \E w \in WorkerIds :
        /\ workers[w].pc = "rewound"
        /\ LET req == workers[w].req
               url == bucket_url(req.key, req.bucket, req.params)
           IN  workers' = [workers EXCEPT
                            ![w].pc = "sent",
                            ![w].events = @ \o <<"send">>,
                            ![w].sent = <<Call("PUT", url, FpData)>>,
                            ![w].read = files[w].pos]
        /\ UNCHANGED <<files, mpVars, listVars, signVars>>

\* As AfterAnswer, an error ending the runs of the other threads as well.
AfterAnswer_CancelOthers(ws, w, answer) ==
    [v \in DOMAIN ws |->
        IF v = w
        THEN [ws[v] EXCEPT !.pc = "answered", !.answer = answer,
                           !.outcome = IF answer.status = StatusOK THEN "return"
                                       ELSE "HTTPError",
                           !.ret = IF answer.status = StatusOK THEN "response"
                                   ELSE None]
        ELSE IF answer.status = StatusError /\ ws[v].pc # "done"
        THEN [ws[v] EXCEPT !.pc = "done", !.outcome = "cancelled"]
        ELSE ws[v]]

\* response.raise_for_status(); return response: in the thread of the call.
AfterAnswer(ws, w, answer) ==
    [ws EXCEPT ![w].pc = "answered",
               ![w].answer = answer,
               ![w].outcome = IF answer.status = StatusOK THEN "return"
                              ELSE "HTTPError",
               ![w].ret = IF answer.status = StatusOK THEN "response" ELSE None]

Answer ==
    \E w \in WorkerIds, answer \in PlainAnswers :
        /\ workers[w].pc = "sent"
        /\ workers' = AfterAnswer(workers, w, answer)
        /\ UNCHANGED <<files, mpVars, listVars, signVars>>

\* finally: if self.close and hasattr(self.fp, "close"): self.fp.close()
Close ==
    \E w \in WorkerIds :
        /\ workers[w].pc = "answered"
        /\ LET closes == workers[w].req.close /\ workers[w].req.fp.hasClose
           IN  /\ workers' = [workers EXCEPT
                                ![w].pc = "done",
                                ![w].events = IF closes THEN @ \o <<"close">> ELSE @]
               /\ files' = IF closes THEN [files EXCEPT ![w].closed = TRUE] ELSE files
        /\ UNCHANGED <<mpVars, listVars, signVars>>

InitParts ==
    /\ sessions = [s \in SessionIds |-> IF s = "s1" THEN ActiveSession ELSE NoSession]
    /\ lastOp = NoOp
    /\ InitListIdle
    /\ signer = NoSigner
    /\ original = NoSignRequest
    /\ copies = <<>>
    /\ signing = NoSigning
    /\ clock = 1
    /\ files \in [WorkerIds -> PartSources]
    /\ \E flags \in [WorkerIds -> [close : BOOLEAN, rewind : BOOLEAN]] :
        workers = [w \in WorkerIds |->
                    Worker(UploadPartRequest(sessions["s1"].key, Bucket, files[w], w,
                                             sessions["s1"].uploadId,
                                             flags[w].close, flags[w].rewind))]

NextParts == Rewind \/ Send \/ Answer \/ Close

SpecParts == InitParts /\ [][NextParts]_vars

\* What the run of a request alone, answered as it was, comes to.
Alone(worker) == UploadPartRequest_run(worker.req, worker.answer)

\* C20: upload-part runs of one session that go on at the same time, each
\* with its own source, do not touch one another: a step of one run leaves
\* every other run and its source as they were and leaves the session as it
\* was; each run sends its own part number, upload id and source; and each
\* run ends as it would have ended alone, whether another one failed or not.
C20_PartUploadsAreIndependent ==
    [][/\ sessions' = sessions
       /\ \A w \in WorkerIds :
            /\ (workers'[w] # workers[w] \/ files'[w] # files[w])
                => \A v \in WorkerIds \ {w} :
                        workers'[v] = workers[v] /\ files'[v] = files[v]
            /\ workers'[w].sent # <<>>
                => /\ workers'[w].sent = <<PartCall(workers'[w].req)>>
                   /\ workers'[w].req.part_num = w
                   /\ workers'[w].req.upload_id = sessions["s1"].uploadId
            /\ workers'[w].pc = "done"
                => /\ workers'[w].outcome = Alone(workers'[w]).outcome
                   /\ workers'[w].ret = Alone(workers'[w]).ret
                   /\ workers'[w].sent = Alone(workers'[w]).sent
                   /\ workers'[w].events = Alone(workers'[w]).events]_vars

\* One run has failed and is over while another, sent before the failure
\* or after, is still waiting for its answer.
C20_Witness ==
    /\ workers # <<>>
    /\ workers[1].pc = "done"
    /\ workers[1].outcome = "HTTPError"
    /\ workers[2].pc = "sent"
    /\ workers[2].sent = <<PartCall(workers[2].req)>>
    /\ workers[2].req.part_num = 2

(***************************************************************************)
(* Properties of a listing run again (SpecList).                           *)
(***************************************************************************)
\* C21: a listing is forward-only and non-restartable: once a generator of a
\* listing request has gone past a page or has ended, a later generator of
\* the same request sends no page request with the cursor of the page that
\* the earlier one went past last.
C21_ListingNeverStartsOver ==
    \A i \in 1..Len(requests) : requests[i] \notin earlier


\* The key of the record yielded last in this iteration, "" before the first.
LastKey == IF yielded = <<>> THEN "" ELSE yielded[Len(yielded)].key

\* C22: in an object listing the first page request carries the empty
\* marker, and a page request carries the key of the record yielded last
\* before it was sent; a record dropped as malformed never becomes the
\* marker, which changes only when the generator goes on from a yield.
C22_MarkerIsLastYieldedKey ==
    lister.kind = "objects" =>
        /\ requests # <<>> => requests[1] = <<"">>
        /\ gen.pc = "waiting" => requests[Len(requests)] = <<LastKey>>
        /\ gen.pc \in {"fetch", "waiting", "tags", "finished", "failed"}
              => gen.marker = LastKey
        /\ gen.pc = "suspended" /\ Len(yielded) > 1
              => gen.marker = yielded[Len(yielded) - 1].key
        /\ gen.pc = "suspended" /\ Len(yielded) = 1 => gen.marker = ""

C22_Witness ==
    /\ lister.kind = "objects"
    /\ gen.pc = "waiting"
    /\ Len(requests) = 2
    /\ Len(pages) = 1
    /\ Len(pages[1].tags) = 3
    /\ ~Extract("objects", pages[1].tags[2]).some
    /\ Len(yielded) = 2
    /\ requests[2] = <<yielded[2].key>>
    /\ requests[2] # requests[1]


\* A page request is sent in this step.
Requested == Len(requests') = Len(requests) + 1

\* The cursor of the request sent in this step.
Sent == requests'[Len(requests')]

\* C23: in an upload listing and a part listing the request after a page
\* with IsTruncated = true carries the markers that page supplies
\* (NextKeyMarker and NextUploadIdMarker together, NextPartNumberMarker); the
\* first request of a generator carries the markers the request object was
\* given, which for the first generator are the caller's; and the markers of
\* the request object change at the end of a truncated page only.
C23_NextRequestCarriesServerMarkers ==
    [][lister.kind \in {"uploads", "parts"} =>
        /\ lister' # lister
             => gen.pc = "tags" /\ gen.idx = Len(gen.page.tags) /\ Truncated(gen.page)
        /\ Requested /\ requests = <<>>
             => /\ Sent = Cursor(lister, gen)
                /\ earlier = {} => \A i \in 1..Len(Sent) : Sent[i] \in InitialMarkers
        /\ Requested /\ requests # <<>>
             => LET page == pages[Len(pages)]
                IN  /\ Truncated(page)
                    /\ lister.kind = "uploads" /\ page.NextKeyMarker # Absent
                         => Sent[1] = page.NextKeyMarker
                    /\ lister.kind = "uploads" /\ page.NextUploadIdMarker # Absent
                         => Sent[2] = page.NextUploadIdMarker
                    /\ lister.kind = "parts" /\ page.NextPartNumberMarker # Absent
                         => Sent[1] = page.NextPartNumberMarker]_vars

C23_Witness ==
    /\ lister.kind = "uploads"
    /\ earlier = {}
    /\ Len(requests) = 3
    /\ Len(pages) = 3
    /\ requests[1] = <<"m0", "">>
    /\ pages[1].NextKeyMarker = "m2" /\ pages[1].NextUploadIdMarker = Absent
    /\ pages[2].NextKeyMarker = "m1" /\ pages[2].NextUploadIdMarker = "i1"
    /\ requests[3] = <<"m1", "i1">>
    /\ ~Truncated(pages[3])
    /\ lister.key_marker = "m1" /\ lister.upload_id_marker = "i1"


(***************************************************************************)
(* Properties of the strings that are signed (SpecSign).                   *)
(***************************************************************************)
\* The lines of a canonicalized header text that bear the name.
LinesOf(lines, name) == SelectSeq(lines, LAMBDA line : line[1] = name)

\* C24: the Date line of the V2 string to sign is the Date header when the
\* request has no x-amz-date header and is empty when it has one; the Date
\* header is then still on the request as the caller set it, and x-amz-date
\* has its line in CanonicalizedAmzHeaders.
C24_V2DateLineEmptyUnderAmzDate ==
    \A i \in 1..Len(copies) :
        (signer.version = 2 /\ Signed(i))
        => LET headers == copies[i].request.headers
               sts == string_to_sign(copies[i].request)
           IN  /\ headers["Authorization"].signature = _generate_signature(signer, sts)
               /\ "x-amz-date" \notin DOMAIN headers
                    => sts.date = Get(headers, "Date")
               /\ "x-amz-date" \in DOMAIN headers
                    => /\ sts.date = EmptyValue
                       /\ Get(headers, "Date") = Get(original.headers, "Date")
                       /\ LinesOf(sts.canonicalized_amz_headers, "x-amz-date")
                            = <<<<"x-amz-date", <<headers["x-amz-date"]>>>>>>

C24_Witness ==
    /\ signer.version = 2
    /\ Signed(1)
    /\ "x-amz-date" \in DOMAIN copies[1].request.headers
    /\ "Date" \in DOMAIN copies[1].request.headers
    /\ string_to_sign(copies[1].request).date = EmptyValue
    /\ copies[1].request.headers["Authorization"].signature
         = _generate_signature(signer, string_to_sign(copies[1].request))


(***************************************************************************)
(* SpecCanon: the canonicalization functions of the two signers, each      *)
(* called on a request whose headers come in several letter cases, whose   *)
(* query parameters come in any order and whose body is of any kind.       *)
(***************************************************************************)
AclValues == {Value("private", 0), Value("public-read", 0)}

CanonHeaderSets ==
    {("Content-Type" :> Value("text/plain", 0)) @@ ("X-Amzn-Id" :> id)
     @@ ("X-Amz-Acl" :> acl1) @@ ("x-amz-acl" :> acl2) @@ ("X-Amz-Date" :> date2)
     @@ ("x-amz-date" :> date1) @@ ("Authorization" :> auth) :
        id \in {EmptyValue, Value("id", 0)},
        acl1 \in AclValues \cup {EmptyValue},
        acl2 \in AclValues \cup {EmptyValue},
        date2 \in {EmptyValue, strftime(2)},
        date1 \in {EmptyValue, strftime(1)},
        auth \in {EmptyValue, Value("AWS AK:sig", 0)}}

CanonQueries ==
    {<<>>,
     <<Param("prefix", TRUE, "foo")>>,
     <<Param("uploads", FALSE, "")>>,
     <<Param("uploadId", TRUE, "u1"), Param("partNumber", TRUE, "1")>>,
     <<Param("partNumber", TRUE, "1"), Param("uploadId", TRUE, "u1")>>,
     <<Param("max", TRUE, "1"), Param("max-keys", TRUE, "1")>>,
     <<Param("max-keys", TRUE, "1"), Param("max", TRUE, "1")>>,
     <<Param("prefix", TRUE, "foo"), Param("prefix", TRUE, "1")>>,
     <<Param("uploads", FALSE, ""), Param("prefix", TRUE, "foo"), Param("acl", FALSE, "")>>,
     <<Param("prefix", TRUE, "foo"), Param("acl", FALSE, ""), Param("uploads", FALSE, "")>>}

CanonBodies ==
    {NoneBody, BodyOf("bytes", ""), BodyOf("bytes", "data"), BodyOf("bytes", "other"),
     BodyOf("str", "data"), BodyOf("str", "caf\\u00e9"), BodyOf("stream", "data"),
     BodyOf("stream", "other")}

CanonRequests ==
    {[method |-> "put",
      url |-> [scheme |-> "https", hostname |-> S3AmazonawsCom, port |-> "",
               path |-> <<"/", "key">>, query |-> q],
      headers |-> Headers(h),
      body |-> b] :
        q \in CanonQueries, h \in CanonHeaderSets, b \in CanonBodies}

\* self._create_canonical_request(request)
CanonicalRequest ==
    /\ signing = NoSigning
    /\ signing' = [call |-> "_create_canonical_request",
                   result |-> _create_canonical_request(original)]
    /\ UNCHANGED <<signer, original, copies, clock, mpVars, listVars, partVars>>

\* self.string_to_sign(request)
StringToSign ==
    /\ signing = NoSigning
    /\ signing' = [call |-> "string_to_sign", result |-> string_to_sign(original)]
    /\ UNCHANGED <<signer, original, copies, clock, mpVars, listVars, partVars>>

\* The call returns; its locals are gone.
Returned ==
    /\ signing # NoSigning
    /\ signing' = NoSigning
    /\ UNCHANGED <<signer, original, copies, clock, mpVars, listVars, partVars>>

InitCanon ==
    /\ InitMultipart
    /\ InitPartsIdle
    /\ InitListIdle
    /\ signer = NoSigner
    /\ original \in CanonRequests
    /\ copies = <<>>
    /\ signing = NoSigning
    /\ clock = 1

NextCanon == CanonicalRequest \/ StringToSign \/ Returned

SpecCanon == InitCanon /\ [][NextCanon]_vars

\* The keys of the headers whose lower-case form is the name.
KeysOf(headers, name) == {k \in DOMAIN headers : Lower(k) = name}

\* The names come in ascending order, none twice.
StrictlySorted(names) ==
    \A i \in 1..(Len(names) - 1) :
        Rank(names[i], HeaderOrder) < Rank(names[i + 1], HeaderOrder)

\* C25: the V2 CanonicalizedAmzHeaders hold a line for each lower-case name
\* that starts with x-amz- and for no other name, one line a name, sorted by
\* name; the value of a line is the values of all the headers of that name,
\* in whatever letter case, joined; no other header has a part in it.
C25_AmzHeadersMergedByLowerCaseName ==
    signing.call = "string_to_sign"
    => LET lines == signing.result.canonicalized_amz_headers
           names == [i \in 1..Len(lines) |-> lines[i][1]]
       IN  /\ Range(names)
                = {Lower(k) : k \in {x \in DOMAIN original.headers :
                                        StartsWithXAmz(Lower(x))}}
           /\ StrictlySorted(names)
           /\ \A i \in 1..Len(lines) :
                /\ Len(lines[i][2]) = Cardinality(KeysOf(original.headers, names[i]))
                /\ Range(lines[i][2])
                     = {original.headers[k] : k \in KeysOf(original.headers, names[i])}

C25_Witness ==
    /\ signing.call = "string_to_sign"
    /\ DOMAIN original.headers
         = {"Content-Type", "X-Amzn-Id", "X-Amz-Acl", "x-amz-acl", "x-amz-date"}
    /\ original.headers["X-Amz-Acl"] # original.headers["x-amz-acl"]
    /\ signing.result.canonicalized_amz_headers
         = <<<<"x-amz-acl",
               <<original.headers["X-Amz-Acl"], original.headers["x-amz-acl"]>>>>,
             <<"x-amz-date", <<strftime(1)>>>>>>


\* C26: the V4 SignedHeaders name exactly the names that have a line in
\* CanonicalHeaders: the lower-case name of every header but Authorization,
\* each name once, sorted; and so too when the request holds one name in
\* several letter cases.
C26_SignedHeadersNameTheCanonicalLines ==
    signing.call = "_create_canonical_request"
    => LET lines == signing.result.canonical_headers
           signed == signing.result.signed_headers
       IN  /\ signed = [i \in 1..Len(lines) |-> lines[i][1]]
           /\ StrictlySorted(signed)
           /\ Range(signed)
                = {Lower(k) : k \in DOMAIN original.headers} \ {"authorization"}


\* The (key, value) pairs of a query, a parameter without "=" having the
\* value "".
PairsOf(query) ==
    [i \in 1..Len(query) |-> <<query[i].key, IF query[i].eq THEN query[i].value ELSE "">>]

SameBag(s, t) ==
    /\ Len(s) = Len(t)
    /\ \A x \in Range(s) \cup Range(t) : Count(s, x) = Count(t, x)

\* The arrangements of the pairs.
Arrangements(pairs) ==
    {s \in [1..Len(pairs) -> Range(pairs)] : SameBag(s, pairs)}

\* "key=value&key=value" of pairs in the order given.
Written(pairs) ==
    Join([i \in 1..Len(pairs) |-> <<pairs[i][1], "=", pairs[i][2]>>], "&")

\* The keys of the model in ascending order of the strings "key=": "-"
\* sorts before "=", so "max-keys=" comes before "max=".
KeyEqOrder == <<"acl", "max-keys", "max", "partNumber", "prefix", "uploadId", "uploads">>

\* Pairs in ascending order as tuples: by key, then by value.
AscendingAsPairs(pairs) ==
    \A i \in 1..(Len(pairs) - 1) :
        RankBase * Rank(pairs[i][1], KeyOrder) + Rank(pairs[i][2], ValueOrder)
        <= RankBase * Rank(pairs[i + 1][1], KeyOrder) + Rank(pairs[i + 1][2], ValueOrder)

\* Pairs in ascending order of their "key=value" strings.
AscendingAsStrings(pairs) ==
    \A i \in 1..(Len(pairs) - 1) :
        RankBase * Rank(pairs[i][1], KeyEqOrder) + Rank(pairs[i][2], ValueOrder)
        <= RankBase * Rank(pairs[i + 1][1], KeyEqOrder) + Rank(pairs[i + 1][2], ValueOrder)

\* C27 as stated: the V4 canonical query string is the parameters of the
\* URL as full key=value pairs, sorted as key=value strings and joined by
\* "&", the empty string for an empty query.
C27_QuerySortedAsStrings ==
    signing.call = "_create_canonical_request"
    => \E s \in Arrangements(PairsOf(original.url.query)) :
            /\ AscendingAsStrings(s)
            /\ signing.result.canonical_query_string = Written(s)

\* C27, amended: the V4 canonical query string is the parameters of the URL
\* as full key=value pairs, sorted as (key, value) pairs - by key, and by
\* value under one key - and joined by "&", the values as they stand; it is
\* empty for an empty query, and the same for every order in which the URL
\* holds the parameters.
C27_QuerySortedAsPairs ==
    signing.call = "_create_canonical_request"
    => /\ \E s \in Arrangements(PairsOf(original.url.query)) :
            /\ AscendingAsPairs(s)
            /\ signing.result.canonical_query_string = Written(s)
       /\ original.url.query = <<>> => signing.result.canonical_query_string = <<>>
       /\ \A q \in CanonQueries :
            SameBag(PairsOf(q), PairsOf(original.url.query))
            => _get_canonical_query_string(q) = signing.result.canonical_query_string

C27_Witness ==
    /\ signing.call = "_create_canonical_request"
    /\ original.url.query = <<Param("max-keys", TRUE, "1"), Param("max", TRUE, "1")>>
    /\ signing.result.canonical_query_string
         = <<"max", "=", "1", "&", "max-keys", "=", "1">>


\* The bytes a body sends: those of bytes, the encoding of a text, what a
\* readable object gives when read, none for no body.
BytesOf(body) ==
    CASE body.kind = "none" -> ""
      [] body.kind = "str" -> encode(body.data)
      [] OTHER -> body.data

\* C28: the V4 payload hash is the SHA-256 of the bytes of the body, of
\* whatever kind the body is (bytes, text, readable object), and that of the
\* empty string when there is no body; two requests that differ in their
\* non-empty bodies only have different canonical requests.
C28_PayloadHashIsOfTheBodyBytes ==
    signing.call = "_create_canonical_request"
    => /\ signing.result.payload_hash = sha256(BytesOf(original.body))
       /\ \A b \in CanonBodies :
            (BytesOf(b) # BytesOf(original.body) /\ BytesOf(b) # ""
             /\ BytesOf(original.body) # "")
            => _create_canonical_request([original EXCEPT !.body = b]) # signing.result


(***************************************************************************)
(* Properties of signing again, and of the V4 timestamp (SpecSign).        *)
(***************************************************************************)
\* C29: signing a request that has been signed before (by V2, or by V4,
\* which has given it its x-amz-date) gives the same Authorization header
\* and changes no other header, nor anything else of the request.
C29_SigningAgainChangesNothing ==
    [][\A i \in 1..Len(copies) :
            Signed(i) => copies'[i].request = copies[i].request]_vars

\* A request that came without x-amz-date, signed by V4 at instant 1 and
\* again at instant 2.
C29_Witness ==
    /\ signer.version = 4
    /\ "x-amz-date" \notin DOMAIN original.headers
    /\ copies[1].at = 2
    /\ copies[1].request.headers["x-amz-date"] = strftime(1)
    /\ "Authorization" \in DOMAIN copies[1].request.headers

\* C30: in a request signed by V4 the timestamp of the string to sign is
\* the value of the x-amz-date header the request is sent with, and the date
\* of the credential scope is its first eight characters; the Date header
\* has no part in the timestamp.
C30_TimestampIsTheAmzDateSent ==
    \A i \in 1..Len(copies) :
        (signer.version = 4 /\ Signed(i))
        => LET request == copies[i].request
               sent == request.headers["x-amz-date"]
               auth == request.headers["Authorization"]
           IN  /\ signing.copy = i => signing.timestamp = sent
               /\ auth.credential_scope.date_stamp = DateStamp(sent)
               /\ auth.signature
                    = _calculate_signature(
                          signer, _create_string_to_sign(signer, request, sent),
                          DateStamp(sent))

\* A request sent with a Date header that tells another text than its
\* x-amz-date.
C30_Witness ==
    /\ signer.version = 4
    /\ Signed(1)
    /\ signing.copy = 1
    /\ "Date" \in DOMAIN copies[1].request.headers
    /\ copies[1].request.headers["Date"].fmt \in DateFormats
    /\ signing.timestamp = copies[1].request.headers["x-amz-date"]
    /\ signing.timestamp # strftime(copies[1].request.headers["Date"].t)

====
